------------------------------- MODULE Surfaces -------------------------------
(***************************************************************************)
(* The three ways to the services: the command line, which speaks HTTP to     *)
(* the application, HTTP itself, and the tools of MCP.  What a client says    *)
(* goes through tables of names and through parameters that are told apart    *)
(* by their place only: a key the other side does not know is dropped in      *)
(* silence, one that is missed is taken for left out, and null means left     *)
(* out or emptied, as the reader has it.                                      *)
(*                                                                            *)
(* An argument is known by the name of its parameter.  Its value is that      *)
(* name, for a switch Yes or No, or Empty; what counts is where it arrives.   *)
(* A behaviour is one call.  The instance of a page call is in the address    *)
(* everywhere and is left out, as are answers and their printing.             *)
(*                                                                            *)
(* Code: crates/cli/src/cli/page.rs, instance.rs, env.rs, extension.rs,       *)
(* client.rs; api/pages.rs, instances.rs, environments.rs, extensions.rs,     *)
(* login_profiles.rs, session.rs, mcp.rs.                                     *)
(***************************************************************************)
EXTENDS Naturals, Sequences, Functions, FiniteSetsExt, TLC

VARIABLES
    given,  \* a call: by which way, what for, with which arguments
    made    \* what reaches the service: Unmade before

vars == <<given, made>>

Nothing == "none"
Null == "null"
Empty == "empty"
Yes == "yes"
No == "no"
Unmade == [method |-> Nothing, args |-> <<>>]
Refused == [method |-> "refused", args |-> <<>>]

Fields(must, may) == [must |-> must, may |-> may]

\* A page call: the tab may be left out where there is one only.
OnPage(must, may) == Fields(must, may \cup {"tab"})

Keep(f, keys) == [k \in DOMAIN f \cap keys |-> f[k]]

-----------------------------------------------------------------------------
(* The services: what their methods take, in order. *)
PageMethods ==
    [snap |-> <<"tab">>, click |-> <<"tab", "target">>, fill |-> <<"tab", "target", "value">>,
     press |-> <<"tab", "key", "target">>, wait |-> <<"tab", "selector", "state", "timeout">>,
     dialogs |-> <<"tab", "since">>, eval |-> <<"tab", "expression">>,
     raw |-> <<"tab", "method", "params", "browser">>, html |-> <<"tab", "selector">>,
     clickxy |-> <<"tab", "x", "y">>, loadall |-> <<"tab", "selector", "interval", "maxClicks">>,
     type |-> <<"tab", "text">>, navigate |-> <<"tab", "url">>, back |-> <<"tab">>, forward |-> <<"tab">>,
     screenshot |-> <<"tab", "target", "full">>, reload |-> <<"tab", "ignoreCache">>,
     pdf |-> <<"tab", "landscape", "printBackground", "paperWidth", "paperHeight">>,
     emulate |-> <<"tab", "preset", "viewport", "userAgent", "mobile", "touch", "off">>,
     extract |-> <<"tab", "target">>, download_wait |-> <<"tab", "timeoutMs">>,
     downloads |-> <<"tab">>, upload |-> <<"tab", "target", "filePath">>,
     intercept_set |-> <<"tab", "rules">>, intercept_get |-> <<"tab">>]

ServiceMethods ==
    [create_environment |-> <<"name", "hostsSourceUrl", "icon", "sessionCapture">>,
     update_environment |-> <<"environmentId", "name", "hostsSourceUrl", "icon", "startupArgs",
                              "keepAlive", "sessionCapture">>,
     delete_environment |-> <<"environmentId">>, stop_all |-> <<"environmentId">>,
     activity |-> <<"environmentId", "limit">>,
     create_instance |-> <<"environmentId", "name">>, list_instances |-> <<"environmentId">>,
     get_instance |-> <<"instanceId">>, start |-> <<"instanceId">>, stop |-> <<"instanceId">>,
     restart |-> <<"instanceId">>, delete_instance |-> <<"instanceId">>, cdp |-> <<"instanceId">>,
     cdp_session |-> <<"instanceId">>, tabs |-> <<"instanceId">>, open_tab |-> <<"instanceId", "url">>,
     navigate_tab |-> <<"instanceId", "tabId", "url">>, diagnostics |-> <<"instanceId">>,
     console |-> <<"instanceId", "level", "tab", "limit">>,
     network |-> <<"instanceId", "failedOnly", "tab", "limit">>,
     network_body |-> <<"instanceId", "requestId", "offset", "limit">>,
     shot |-> <<"instanceId">>, har |-> <<"instanceId">>,
     login_view |-> <<"environmentId">>, login_capture |-> <<"environmentId">>,
     capture_from |-> <<"environmentId", "fromInstanceId">>, login_reset |-> <<"environmentId">>,
     session_status |-> <<"environmentId">>, session_restore |-> <<"environmentId", "generation">>,
     get_extension |-> <<"extensionId">>, register_extension |-> <<"path">>,
     enable_extension |-> <<"extensionId", "enabled">>, delete_extension |-> <<"extensionId">>,
     get_config |-> <<"extensionId", "environmentId">>,
     set_config |-> <<"extensionId", "environmentId", "config">>]

Takes == PageMethods @@ ServiceMethods

Switches == {"browser", "full", "ignoreCache", "landscape", "printBackground", "mobile", "touch", "off",
             "failedOnly", "keepAlive", "enabled", "noPrintBackground"}

\* What a service does where an argument is left out.
Default(p) ==
    CASE p = "printBackground" -> Yes
      [] p = "params"          -> "{}"
      [] p \in Switches \ {"printBackground", "keepAlive"} -> No
      [] OTHER                 -> Nothing

\* domain/environment.rs: an update tells what is left out from what is emptied.
Emptied(verb, p) == verb = "update_environment" /\ p \in {"hostsSourceUrl", "icon", "startupArgs"}

-----------------------------------------------------------------------------
(* HTTP: the keys of bodies, queries and addresses, and what the handlers make of them. *)
HttpActFields ==
    [snap |-> OnPage({}, {}), click |-> OnPage({"target"}, {}), fill |-> OnPage({"target", "value"}, {}),
     press |-> OnPage({"key"}, {"target"}), wait |-> OnPage({"selector"}, {"state", "timeout"}),
     dialogs |-> OnPage({}, {"since"}), eval |-> OnPage({"expression"}, {}),
     html |-> OnPage({}, {"selector"}), clickxy |-> OnPage({"x", "y"}, {}),
     loadall |-> OnPage({"selector"}, {"interval", "maxClicks"}), type |-> OnPage({"text"}, {}),
     navigate |-> OnPage({"url"}, {}), back |-> OnPage({}, {}), forward |-> OnPage({}, {}),
     reload |-> OnPage({}, {"ignoreCache"})]

HttpShowFields ==
    [screenshot |-> OnPage({}, {"target", "full"}),
     pdf |-> OnPage({}, {"landscape", "printBackground", "paperWidth", "paperHeight"}),
     emulate |-> OnPage({}, {"preset", "viewport", "userAgent", "mobile", "touch", "off"}),
     download_wait |-> OnPage({}, {"timeoutMs"}), downloads |-> OnPage({}, {}),
     upload |-> OnPage({"target", "filePath"}, {}), extract |-> OnPage({}, {"target"}),
     raw |-> OnPage({"method"}, {"params", "browser"}),
     intercept_set |-> OnPage({"rules"}, {}), intercept_get |-> OnPage({}, {})]

HttpInstanceFields ==
    [create_instance |-> Fields({"environmentId"}, {"name"}), list_instances |-> Fields({"environmentId"}, {}),
     stop_all |-> Fields({"environmentId"}, {}), open_tab |-> Fields({"instanceId", "url"}, {}),
     navigate_tab |-> Fields({"instanceId", "tabId", "url"}, {}),
     console |-> Fields({"instanceId"}, {"level", "limit", "tab"}),
     network |-> Fields({"instanceId"}, {"failedOnly", "limit", "tab"}),
     network_body |-> Fields({"instanceId", "requestId"}, {"offset", "limit"})]
    @@ [v \in {"get_instance", "start", "stop", "restart", "delete_instance", "cdp", "cdp_session", "tabs",
               "diagnostics", "shot", "har"} |-> Fields({"instanceId"}, {})]

HttpEnvironmentFields ==
    [create_environment |-> Fields({"name"}, {"hostsSourceUrl", "icon", "sessionCapture"}),
     update_environment |-> Fields({"environmentId"}, {"name", "hostsSourceUrl", "icon", "startupArgs",
                                                       "keepAlive", "sessionCapture"}),
     activity |-> Fields({"environmentId"}, {"limit"}),
     login_capture |-> Fields({"environmentId"}, {"fromInstanceId"}),
     session_restore |-> Fields({"environmentId", "generation"}, {})]
    @@ [v \in {"delete_environment", "login_view", "login_reset", "session_status"}
          |-> Fields({"environmentId"}, {})]

HttpExtensionFields ==
    [register_extension |-> Fields({"path"}, {}), enable_extension |-> Fields({"extensionId", "enabled"}, {}),
     get_config |-> Fields({"extensionId"}, {"environmentId"}),
     set_config |-> Fields({"extensionId", "config"}, {"environmentId"})]
    @@ [v \in {"get_extension", "delete_extension"} |-> Fields({"extensionId"}, {})]

HttpFields == HttpActFields @@ HttpShowFields @@ HttpInstanceFields @@ HttpEnvironmentFields
              @@ HttpExtensionFields

HttpActs ==
    [snap |-> <<"tab">>, click |-> <<"tab", "target">>, fill |-> <<"tab", "target", "value">>,
     press |-> <<"tab", "key", "target">>, wait |-> <<"tab", "selector", "state", "timeout">>,
     dialogs |-> <<"tab", "since">>, eval |-> <<"tab", "expression">>,
     raw |-> <<"tab", "method", "params", "browser">>]

HttpWalks ==
    [html |-> <<"tab", "selector">>, clickxy |-> <<"tab", "x", "y">>,
     loadall |-> <<"tab", "selector", "interval", "maxClicks">>, intercept_set |-> <<"tab", "rules">>,
     intercept_get |-> <<"tab">>, type |-> <<"tab", "text">>, navigate |-> <<"tab", "url">>,
     screenshot |-> <<"tab", "target", "full">>, back |-> <<"tab">>, forward |-> <<"tab">>]

HttpShows ==
    [pdf |-> <<"tab", "landscape", "printBackground", "paperWidth", "paperHeight">>,
     reload |-> <<"tab", "ignoreCache">>, extract |-> <<"tab", "target">>,
     emulate |-> <<"tab", "preset", "viewport", "userAgent", "mobile", "touch", "off">>,
     download_wait |-> <<"tab", "timeoutMs">>, downloads |-> <<"tab">>,
     upload |-> <<"tab", "target", "filePath">>]

HttpManages ==
    [create_instance |-> <<"environmentId", "name">>, list_instances |-> <<"environmentId">>,
     stop_all |-> <<"environmentId">>]
    @@ [v \in {"get_instance", "start", "stop", "restart", "cdp"} |-> <<"instanceId">>]

HttpLooks ==
    [open_tab |-> <<"instanceId", "url">>, navigate_tab |-> <<"instanceId", "tabId", "url">>,
     console |-> <<"instanceId", "level", "tab", "limit">>,
     network |-> <<"instanceId", "failedOnly", "tab", "limit">>,
     network_body |-> <<"instanceId", "requestId", "offset", "limit">>]
    @@ [v \in {"delete_instance", "cdp_session", "tabs", "diagnostics", "shot", "har"} |-> <<"instanceId">>]

\* An environment's input is one record: its fields keep their names.
HttpKeeps ==
    [create_environment |-> ServiceMethods.create_environment,
     update_environment |-> ServiceMethods.update_environment, activity |-> <<"environmentId", "limit">>,
     delete_environment |-> <<"environmentId">>]

HttpLogins ==
    [session_restore |-> <<"environmentId", "generation">>, capture_from |-> <<"environmentId", "fromInstanceId">>]
    @@ [v \in {"login_view", "login_capture", "login_reset", "session_status"} |-> <<"environmentId">>]

HttpExtends ==
    [register_extension |-> <<"path">>, get_extension |-> <<"extensionId">>,
     delete_extension |-> <<"extensionId">>, enable_extension |-> <<"extensionId", "enabled">>,
     get_config |-> <<"extensionId", "environmentId">>,
     set_config |-> <<"extensionId", "environmentId", "config">>]

HttpCalls == HttpActs @@ HttpWalks @@ HttpShows @@ HttpManages @@ HttpLooks @@ HttpKeeps @@ HttpLogins
             @@ HttpExtends

-----------------------------------------------------------------------------
(* What a route leads to: a method, what it is about, and the rest of the path.  The
   identifiers in a path are arguments and are left out here.                   *)
OfEach(verbs, method, about) == [v \in verbs |-> <<method, about, v>>]

ServerEnvironments ==
    [create_environment |-> <<"POST", "environments", "">>, update_environment |-> <<"PATCH", "environment", "">>,
     delete_environment |-> <<"DELETE", "environment", "">>, login_view |-> <<"GET", "environment", "login">>,
     login_capture |-> <<"POST", "environment", "login/capture">>,
     login_reset |-> <<"POST", "environment", "login/reset">>,
     session_status |-> <<"GET", "environment", "session">>,
     session_restore |-> <<"POST", "environment", "session/restore">>,
     list_instances |-> <<"GET", "environment", "instances">>,
     create_instance |-> <<"POST", "environment", "instances">>,
     stop_all |-> <<"POST", "environment", "stop-all">>]

ServerInstances ==
    [get_instance |-> <<"GET", "instance", "">>, delete_instance |-> <<"DELETE", "instance", "">>,
     network_body |-> <<"GET", "instance", "network/body">>, shot |-> <<"GET", "instance", "screenshot">>,
     tabs |-> <<"GET", "instance", "tabs">>, open_tab |-> <<"POST", "instance", "tabs">>,
     navigate_tab |-> <<"POST", "instance", "navigate">>]
    @@ OfEach({"start", "stop", "restart"}, "POST", "instance")
    @@ OfEach({"cdp", "diagnostics", "console", "network", "har"}, "GET", "instance")

ServerPages ==
    OfEach({"snap", "click", "fill", "press", "wait", "eval", "raw", "html", "clickxy", "loadall", "type",
            "navigate", "back", "forward", "reload", "screenshot", "pdf", "emulate", "download_wait",
            "upload", "extract"}, "POST", "page")
    @@ OfEach({"dialogs", "downloads"}, "GET", "page")
    @@ [intercept_set |-> <<"POST", "page", "intercept">>, intercept_get |-> <<"GET", "page", "intercept">>]

ServerOthers ==
    [register_extension |-> <<"POST", "extensions", "">>, get_extension |-> <<"GET", "extension", "">>,
     enable_extension |-> <<"PATCH", "extension", "">>, delete_extension |-> <<"DELETE", "extension", "">>,
     get_config |-> <<"GET", "extension", "config">>, set_config |-> <<"PUT", "extension", "config">>,
     activity |-> <<"GET", "environment", "activity">>, cdp_session |-> <<"POST", "instance", "cdp/sessions">>]

ServerRoutes == ServerEnvironments @@ ServerInstances @@ ServerPages @@ ServerOthers

Leads(route) == {v \in DOMAIN ServerRoutes : ServerRoutes[v] = route}

-----------------------------------------------------------------------------
(* MCP: the arguments of the tools, and what the tools make of them.  A tool that
   fills a record of the service leaves out what it does not offer.            *)
McpManageFields ==
    [create_environment |-> Fields({"name"}, {"hostsSourceUrl"}),
     update_environment |-> Fields({"environmentId", "keepAlive"}, {}),
     activity |-> Fields({"environmentId"}, {"limit"}), create_instance |-> Fields({"environmentId"}, {"name"}),
     open_tab |-> Fields({"instanceId", "url"}, {}), navigate_tab |-> Fields({"instanceId", "tabId", "url"}, {}),
     login_capture |-> Fields({"environmentId"}, {"fromInstanceId"})]
    @@ [v \in {"delete_environment", "stop_all", "list_instances", "login_view", "login_reset",
               "session_status"} |-> Fields({"environmentId"}, {})]
    @@ [v \in {"get_instance", "start", "stop", "restart", "delete_instance", "cdp", "cdp_session", "tabs",
               "diagnostics", "shot", "har"} |-> Fields({"instanceId"}, {})]

McpQueryFields ==
    [console |-> Fields({"instanceId"}, {"level", "tab", "limit"}),
     network |-> Fields({"instanceId"}, {"failedOnly", "tab", "limit"}),
     network_body |-> Fields({"instanceId", "requestId"}, {"offset", "limit"}),
     get_config |-> Fields({"extensionId"}, {"environmentId"}),
     set_config |-> Fields({"extensionId", "config"}, {"environmentId"}),
     register_extension |-> Fields({"path"}, {}), enable_extension |-> Fields({"extensionId", "enabled"}, {})]
    @@ [v \in {"get_extension", "delete_extension"} |-> Fields({"extensionId"}, {})]

McpActFields ==
    [snap |-> OnPage({}, {}), click |-> OnPage({"target"}, {}), fill |-> OnPage({"target", "value"}, {}),
     press |-> OnPage({"key"}, {"target"}), wait |-> OnPage({"selector"}, {"state", "timeout"}),
     dialogs |-> OnPage({}, {"since"}), eval |-> OnPage({"expression"}, {}),
     raw |-> OnPage({"method"}, {"params", "browser"}), html |-> OnPage({}, {"selector"}),
     clickxy |-> OnPage({"x", "y"}, {}), loadall |-> OnPage({"selector"}, {"interval", "maxClicks"})]

McpShowFields ==
    [type |-> OnPage({"text"}, {}), navigate |-> OnPage({"url"}, {}),
     screenshot |-> OnPage({}, {"target", "full"}), back |-> OnPage({}, {}), forward |-> OnPage({}, {}),
     pdf |-> OnPage({}, {"landscape", "printBackground", "paperWidth", "paperHeight"}),
     reload |-> OnPage({}, {"ignoreCache"}),
     emulate |-> OnPage({}, {"preset", "viewport", "userAgent", "mobile", "touch", "off"}),
     extract |-> OnPage({}, {"target"}), download_wait |-> OnPage({}, {"timeoutMs"}),
     downloads |-> OnPage({}, {}), upload |-> OnPage({"target", "filePath"}, {})]

McpFields == McpManageFields @@ McpQueryFields @@ McpActFields @@ McpShowFields

McpManages ==
    [create_environment |-> <<"name", "hostsSourceUrl", Nothing, Nothing>>,
     update_environment |-> <<"environmentId", Nothing, Nothing, Nothing, Nothing, "keepAlive", Nothing>>,
     activity |-> <<"environmentId", "limit">>, create_instance |-> <<"environmentId", "name">>]
    @@ [v \in {"delete_environment", "stop_all", "list_instances"} |-> <<"environmentId">>]
    @@ [v \in {"get_instance", "start", "stop", "restart"} |-> <<"instanceId">>]

McpLooks ==
    [open_tab |-> <<"instanceId", "url">>, navigate_tab |-> <<"instanceId", "tabId", "url">>,
     console |-> <<"instanceId", "level", "tab", "limit">>,
     network |-> <<"instanceId", "failedOnly", "tab", "limit">>,
     network_body |-> <<"instanceId", "requestId", "offset", "limit">>]
    @@ [v \in {"delete_instance", "cdp", "cdp_session", "tabs", "diagnostics", "shot", "har"}
          |-> <<"instanceId">>]

McpKeeps ==
    [capture_from |-> <<"environmentId", "fromInstanceId">>, register_extension |-> <<"path">>,
     get_extension |-> <<"extensionId">>, delete_extension |-> <<"extensionId">>,
     enable_extension |-> <<"extensionId", "enabled">>, get_config |-> <<"extensionId", "environmentId">>,
     set_config |-> <<"extensionId", "environmentId", "config">>]
    @@ [v \in {"login_view", "login_capture", "login_reset", "session_status"} |-> <<"environmentId">>]

McpActs ==
    [snap |-> <<"tab">>, click |-> <<"tab", "target">>, fill |-> <<"tab", "target", "value">>,
     press |-> <<"tab", "key", "target">>, wait |-> <<"tab", "selector", "state", "timeout">>,
     dialogs |-> <<"tab", "since">>, eval |-> <<"tab", "expression">>,
     raw |-> <<"tab", "method", "params", "browser">>, html |-> <<"tab", "selector">>]

McpWalks ==
    [clickxy |-> <<"tab", "x", "y">>, loadall |-> <<"tab", "selector", "interval", "maxClicks">>,
     type |-> <<"tab", "text">>, navigate |-> <<"tab", "url">>,
     screenshot |-> <<"tab", "target", "full">>, back |-> <<"tab">>, forward |-> <<"tab">>,
     reload |-> <<"tab", "ignoreCache">>]

McpShows ==
    [pdf |-> <<"tab", "landscape", "printBackground", "paperWidth", "paperHeight">>,
     emulate |-> <<"tab", "preset", "viewport", "userAgent", "mobile", "touch", "off">>,
     extract |-> <<"tab", "target">>, download_wait |-> <<"tab", "timeoutMs">>, downloads |-> <<"tab">>,
     upload |-> <<"tab", "target", "filePath">>]

McpCalls == McpManages @@ McpLooks @@ McpKeeps @@ McpActs @@ McpWalks @@ McpShows

-----------------------------------------------------------------------------
(* The command line's client: the key it sends each of its parameters under. *)
ClientManages ==
    [create_environment |-> <<"name", "hostsSourceUrl", "icon", "sessionCapture">>,
     create_instance |-> <<"environmentId", "name">>, open_tab |-> <<"instanceId", "url">>]
    @@ [v \in {"delete_environment", "stop_all", "list_instances"} |-> <<"environmentId">>]
    @@ [v \in {"get_instance", "start", "stop", "restart", "delete_instance", "cdp", "cdp_session"}
          |-> <<"instanceId">>]

ClientLooks ==
    [console |-> <<"instanceId", "level", "tab", "limit">>,
     network |-> <<"instanceId", "failedOnly", "tab", "limit">>,
     network_body |-> <<"instanceId", "requestId", "offset", "limit">>,
     navigate_tab |-> <<"instanceId", "tabId", "url">>]
    @@ [v \in {"diagnostics", "shot", "har", "tabs"} |-> <<"instanceId">>]

ClientKeeps ==
    [activity |-> <<"environmentId", "limit">>, capture_from |-> <<"environmentId", "fromInstanceId">>,
     session_restore |-> <<"environmentId", "generation">>]
    @@ [v \in {"login_view", "login_capture", "login_reset", "session_status"} |-> <<"environmentId">>]

ClientExtends ==
    [register_extension |-> <<"path">>, get_extension |-> <<"extensionId">>,
     delete_extension |-> <<"extensionId">>, enable_extension |-> <<"extensionId", "enabled">>,
     get_config |-> <<"extensionId", "environmentId">>,
     set_config |-> <<"extensionId", "environmentId", "config">>]

ClientActs ==
    [snap |-> <<"tab">>, click |-> <<"target", "tab">>, fill |-> <<"target", "value", "tab">>,
     press |-> <<"key", "target", "tab">>, wait |-> <<"selector", "state", "timeout", "tab">>,
     dialogs |-> <<"tab", "since">>, eval |-> <<"expression", "tab">>,
     raw |-> <<"method", "params", "tab", "browser">>, html |-> <<"selector", "tab">>,
     clickxy |-> <<"x", "y", "tab">>]

\* seeded fault: the names of the parameters instead of the server's keys.
ClientWalks_Snake ==
    [loadall |-> <<"selector", "interval", "max_clicks", "tab">>, type |-> <<"text", "tab">>,
     navigate |-> <<"url", "tab">>, back |-> <<"tab">>, forward |-> <<"tab">>,
     reload |-> <<"ignoreCache", "tab">>, screenshot |-> <<"target", "full", "tab">>,
     extract |-> <<"target", "tab">>]
ClientWalks ==
    [loadall |-> <<"selector", "interval", "maxClicks", "tab">>, type |-> <<"text", "tab">>,
     navigate |-> <<"url", "tab">>, back |-> <<"tab">>, forward |-> <<"tab">>,
     reload |-> <<"ignoreCache", "tab">>, screenshot |-> <<"target", "full", "tab">>,
     extract |-> <<"target", "tab">>]

ClientShows ==
    [pdf |-> <<"tab", "landscape", "printBackground", "paperWidth", "paperHeight">>,
     download_wait |-> <<"timeoutMs", "tab">>, downloads |-> <<"tab">>,
     upload |-> <<"target", "filePath", "tab">>]

\* Where it sends them.
ClientEnvironmentRoutes ==
    [create_environment |-> <<"POST", "environments", "">>, update_environment |-> <<"PATCH", "environment", "">>,
     delete_environment |-> <<"DELETE", "environment", "">>, stop_all |-> <<"POST", "environment", "stop-all">>,
     list_instances |-> <<"GET", "environment", "instances">>,
     create_instance |-> <<"POST", "environment", "instances">>,
     get_instance |-> <<"GET", "instance", "">>, delete_instance |-> <<"DELETE", "instance", "">>,
     open_tab |-> <<"POST", "instance", "tabs">>, cdp |-> <<"GET", "instance", "cdp">>,
     cdp_session |-> <<"POST", "instance", "cdp/sessions">>]
    @@ OfEach({"start", "stop", "restart"}, "POST", "instance")

ClientExtensionRoutes ==
    [register_extension |-> <<"POST", "extensions", "">>, get_extension |-> <<"GET", "extension", "">>,
     enable_extension |-> <<"PATCH", "extension", "">>, delete_extension |-> <<"DELETE", "extension", "">>,
     get_config |-> <<"GET", "extension", "config">>, set_config |-> <<"PUT", "extension", "config">>]

ClientInstanceRoutes ==
    [network_body |-> <<"GET", "instance", "network/body">>, shot |-> <<"GET", "instance", "screenshot">>,
     navigate_tab |-> <<"POST", "instance", "navigate">>]
    @@ OfEach({"diagnostics", "console", "network", "har", "tabs"}, "GET", "instance")

ClientKeepRoutes ==
    [activity |-> <<"GET", "environment", "activity">>, login_view |-> <<"GET", "environment", "login">>,
     login_capture |-> <<"POST", "environment", "login/capture">>,
     capture_from |-> <<"POST", "environment", "login/capture">>,
     login_reset |-> <<"POST", "environment", "login/reset">>,
     session_status |-> <<"GET", "environment", "session">>,
     session_restore |-> <<"POST", "environment", "session/restore">>]

ClientPageRoutes ==
    OfEach({"snap", "click", "fill", "press", "wait", "eval", "raw", "html", "clickxy", "loadall", "type",
            "navigate", "back", "forward", "reload", "screenshot", "extract", "pdf", "emulate",
            "download_wait", "upload"}, "POST", "page")
    @@ OfEach({"dialogs", "downloads"}, "GET", "page")

ClientRoutes == ClientEnvironmentRoutes @@ ClientExtensionRoutes @@ ClientInstanceRoutes @@ ClientKeepRoutes
                @@ ClientPageRoutes

ClientKeys == ClientManages @@ ClientLooks @@ ClientKeeps @@ ClientExtends @@ ClientActs @@ ClientWalks
              @@ ClientShows

\* In a body what is left out is sent as null; in a query, and for a switch there, it is not sent.
InQuery == {"dialogs", "downloads", "console", "network", "network_body", "get_config", "set_config", "activity"}

-----------------------------------------------------------------------------
(* The command line: what clap takes, and what the commands pass to the client. *)
ClapActs ==
    [snap |-> OnPage({}, {}), click |-> OnPage({"target"}, {}), fill |-> OnPage({"target", "value"}, {}),
     press |-> OnPage({"key"}, {"target"}), wait |-> OnPage({"selector"}, {"state", "timeout"}),
     dialogs |-> OnPage({}, {"since"}), eval |-> OnPage({"expression"}, {}),
     raw |-> OnPage({"method"}, {"params", "browser"})]

ClapWalks ==
    [html |-> OnPage({}, {"selector"}), clickxy |-> OnPage({"x", "y"}, {}),
     loadall |-> OnPage({"selector"}, {"interval", "maxClicks"}), type |-> OnPage({"text"}, {}),
     navigate |-> OnPage({"url"}, {}), back |-> OnPage({}, {}), forward |-> OnPage({}, {}),
     reload |-> OnPage({}, {"ignoreCache"})]

ClapShows ==
    [screenshot |-> OnPage({}, {"target", "full"}),
     pdf |-> OnPage({}, {"landscape", "noPrintBackground", "paperWidth", "paperHeight"}),
     extract |-> OnPage({}, {"target"}),
     emulate |-> OnPage({}, {"preset", "viewport", "userAgent", "mobile", "touch", "off"}),
     download_wait |-> OnPage({}, {"timeoutMs"}), downloads |-> OnPage({}, {}),
     upload |-> OnPage({"target", "filePath"}, {})]

ClapInstances ==
    [list_instances |-> Fields({"environmentId"}, {}), create_instance |-> Fields({"environmentId"}, {"name"}),
     console |-> Fields({"instanceId"}, {"level", "tab", "limit"}),
     network |-> Fields({"instanceId"}, {"failedOnly", "tab", "limit"}),
     network_body |-> Fields({"instanceId", "requestId"}, {"offset", "limit"}),
     open_tab |-> Fields({"instanceId", "url"}, {}), navigate_tab |-> Fields({"instanceId", "tabId", "url"}, {})]
    @@ [v \in {"get_instance", "start", "stop", "restart", "cdp", "cdp_session", "tabs", "diagnostics",
               "shot", "har"} |-> Fields({"instanceId"}, {})]

ClapEnvironments ==
    [create_environment |-> Fields({"name"}, {"hostsSourceUrl", "icon", "sessionCapture"}),
     update_environment |-> Fields({"environmentId"}, {"name", "hostsSourceUrl", "icon", "startupArgs",
                                                       "keepAlive", "sessionCapture"}),
     activity |-> Fields({"environmentId"}, {"limit"}), session_status |-> Fields({"environmentId"}, {}),
     session_restore |-> Fields({"environmentId", "generation"}, {})]

ClapExtensions ==
    [register_extension |-> Fields({"path"}, {}), enable_extension |-> Fields({"extensionId", "enabled"}, {}),
     get_extension |-> Fields({"extensionId"}, {}), get_config |-> Fields({"extensionId"}, {"environmentId"}),
     set_config |-> Fields({"extensionId", "config"}, {"environmentId"})]

Clap == ClapActs @@ ClapWalks @@ ClapShows @@ ClapInstances @@ ClapEnvironments @@ ClapExtensions

\* page.rs run: each argument goes to the handler by its place.
PageActs ==
    [snap |-> <<"tab">>, click |-> <<"target", "tab">>, fill |-> <<"target", "value", "tab">>,
     press |-> <<"key", "target", "tab">>, wait |-> <<"selector", "state", "timeout", "tab">>,
     dialogs |-> <<"tab", "since">>, eval |-> <<"expression", "tab">>,
     raw |-> <<"method", "params", "tab", "browser">>, html |-> <<"selector", "tab">>,
     clickxy |-> <<"x", "y", "tab">>, loadall |-> <<"selector", "interval", "maxClicks", "tab">>,
     type |-> <<"text", "tab">>, navigate |-> <<"url", "tab">>]

PageWalks ==
    [back |-> <<"tab">>, forward |-> <<"tab">>, screenshot |-> <<"target", "full", "tab">>]

PageShows ==
    [pdf |-> <<"tab", "landscape", "printBackground", "paperWidth", "paperHeight">>,
     download_wait |-> <<"timeoutMs", "tab">>, downloads |-> <<"tab">>,
     upload |-> <<"target", "filePath", "tab">>, reload |-> <<"ignoreCache", "tab">>,
     extract |-> <<"target", "tab">>]

\* Likewise in instance.rs, env.rs, extension.rs.
InstanceLooks ==
    [list_instances |-> <<"environmentId">>, get_instance |-> <<"instanceId">>,
     console |-> <<"instanceId", "level", "tab", "limit">>,
     network |-> <<"instanceId", "failedOnly", "tab", "limit">>]

InstanceShots ==
    [network_body |-> <<"instanceId", "requestId", "offset", "limit">>]
    @@ [v \in {"diagnostics", "shot", "har"} |-> <<"instanceId">>]

InstanceActs ==
    [create_instance |-> <<"environmentId", "name">>, open_tab |-> <<"instanceId", "url">>,
     navigate_tab |-> <<"instanceId", "tabId", "url">>]
    @@ [v \in {"start", "stop", "restart", "tabs", "cdp", "cdp_session"} |-> <<"instanceId">>]

EnvironmentActs ==
    [create_environment |-> <<"name", "hostsSourceUrl", "icon", "sessionCapture">>,
     activity |-> <<"environmentId", "limit">>]

EnvironmentLogins ==
    [session_status |-> <<"environmentId">>, session_restore |-> <<"environmentId", "generation">>]

ExtensionActs ==
    [register_extension |-> <<"path">>, get_extension |-> <<"extensionId">>,
     enable_extension |-> <<"extensionId", "enabled">>]

ExtensionConfigs ==
    [get_config |-> <<"extensionId", "environmentId">>,
     set_config |-> <<"extensionId", "environmentId", "config">>]

CliPasses == PageActs @@ PageWalks @@ PageShows @@ InstanceLooks @@ InstanceShots @@ InstanceActs
             @@ EnvironmentActs @@ EnvironmentLogins @@ ExtensionActs @@ ExtensionConfigs

\* What a command knows once clap is done: a flag that is not there is No.
Parsed(a, verb) ==
    LET flags == {"browser", "full", "ignoreCache", "landscape", "failedOnly"} \cap Clap[verb].may
    IN  IF verb = "pdf" THEN ("printBackground" :> IF "noPrintBackground" \in DOMAIN a THEN No ELSE Yes)
                             @@ a @@ ("landscape" :> No)
        ELSE a @@ [f \in flags |-> No]

\* The body of emulate has one of three forms; flags are sent when they are there.
EmulateBody(a) ==
    CASE "off" \in DOMAIN a      -> Keep(a, {"off", "tab"})
      [] "preset" \in DOMAIN a   -> Keep(a, {"preset", "tab"})
      [] OTHER -> Keep(a, {"viewport", "userAgent", "mobile", "touch", "tab"})
                  @@ [k \in {"userAgent", "mobile", "touch", "tab"} |-> Null]

\* The body of an update has what was said; the empty word is sent as null.
UpdateBody(a) == [k \in DOMAIN a |-> IF a[k] = Empty THEN Null ELSE a[k]]

ClientBody(verb, a) ==
    LET passed == CliPasses[verb]
        keys   == ClientKeys[verb]
        sent   == [k \in Range(keys) |->
                      LET p == passed[CHOOSE i \in DOMAIN keys : keys[i] = k]
                      IN  IF p \in DOMAIN a THEN a[p] ELSE Null]
    IN  CASE verb = "emulate"            -> EmulateBody(a)
          [] verb = "update_environment" -> UpdateBody(a)
          [] verb \in InQuery            -> Keep(sent, {k \in DOMAIN sent : sent[k] \notin {Null, No}})
          [] OTHER                       -> sent

\* clap turns away what does not go together; a command without a form turns itself away.
Conflict(verb, a) ==
    \/ verb = "screenshot" /\ {"target", "full"} \subseteq DOMAIN a
    \/ /\ verb = "emulate" /\ "preset" \in DOMAIN a
       /\ DOMAIN a \cap {"viewport", "userAgent", "mobile", "touch", "off"} # {}
    \/ verb = "emulate" /\ {"viewport", "off"} \subseteq DOMAIN a

Formless(verb, a) == verb = "emulate" /\ DOMAIN a \cap {"off", "preset", "viewport"} = {}

-----------------------------------------------------------------------------
\* Serde on a body or a tool's arguments: what is required must be there, a switch that is
\* not optional must not be null, what is not known is dropped.
Plain == {"browser", "off"}
Decodes(fields, body) ==
    /\ \A k \in fields.must : k \in DOMAIN body /\ body[k] # Null
    /\ \A k \in Plain \cap DOMAIN body : body[k] # Null

Known(fields, body) == Keep(body, fields.must \cup fields.may)

\* A capture names the instance it takes from, or there is none.
MethodOf(verb, body) ==
    IF verb = "login_capture" /\ "fromInstanceId" \in DOMAIN body THEN "capture_from" ELSE verb

Arrived(verb, call, body) ==
    LET m == MethodOf(verb, body)
        takes == Takes[m]
        said(i) == IF call[m][i] \in DOMAIN body THEN body[call[m][i]] ELSE Nothing
        value(p, v) == CASE v \in {Null, Empty} /\ Emptied(m, p) -> Empty
                         [] v \in {Nothing, Null}                   -> Default(p)
                         [] OTHER                                -> v
    IN  [method |-> m,
         args |-> [p \in Range(takes) |-> value(p, said(CHOOSE i \in DOMAIN takes : takes[i] = p))]]

OverHttp(verb, body) ==
    IF Decodes(HttpFields[verb], body) THEN Arrived(verb, HttpCalls, Known(HttpFields[verb], body)) ELSE Refused

OverMcp(verb, args) ==
    IF Decodes(McpFields[verb], args) THEN Arrived(verb, McpCalls, Known(McpFields[verb], args)) ELSE Refused

\* The command line's request goes where its route leads, if it leads anywhere.
OverCli(verb, args) ==
    LET at == Leads(ClientRoutes[verb])
    IN  IF Clap[verb].must \ DOMAIN args # {} \/ Conflict(verb, args) \/ Formless(verb, args) \/ at = {}
        THEN Refused
        ELSE OverHttp(CHOOSE h \in at : TRUE, ClientBody(verb, Parsed(args, verb)))

-----------------------------------------------------------------------------
Offers(by) == CASE by = "cli" -> Clap [] by = "http" -> HttpFields [] OTHER -> McpFields

\* The values a client may give: a flag of the command line can only be there.
Values(by, verb, k) ==
    CASE k \in {"keepAlive", "enabled"}   -> {Yes, No}
      [] k \in Switches                   -> IF by = "cli" THEN {Yes} ELSE {Yes, No}
      [] Emptied(verb, k)                 -> {k, Empty}
      [] OTHER                            -> {k}

Sayings(by, verb, keys) ==
    FoldSet(LAMBDA k, as : {(k :> v) @@ a : v \in Values(by, verb, k), a \in as}, {<<>>}, keys)

\* Everything required, or all but one, and any choice of the rest.
Calls(by) ==
    UNION {LET f == Offers(by)[verb]
               sets == {f.must \cup m : m \in SUBSET f.may} \cup {f.must \ {x} : x \in f.must}
           IN  {[by |-> by, verb |-> verb, args |-> a] : a \in UNION {Sayings(by, verb, s) : s \in sets}} :
           verb \in DOMAIN Offers(by)}

Asked == UNION {Calls(by) : by \in {"cli", "http", "mcp"}}

Init == given \in Asked /\ made = Unmade

Reaches(c) ==
    CASE c.by = "cli"  -> OverCli(c.verb, c.args)
      [] c.by = "http" -> OverHttp(c.verb, c.args)
      [] OTHER         -> OverMcp(c.verb, c.args)

Call == made = Unmade /\ made' = Reaches(given) /\ UNCHANGED given

Next == Call

Spec == Init /\ [][Next]_vars

-----------------------------------------------------------------------------
\* What the client meant: every argument under its own name, the rest left to the service.
Meant(c) ==
    LET said == IF "noPrintBackground" \in DOMAIN c.args THEN c.args @@ ("printBackground" :> No) ELSE c.args
        m == IF "fromInstanceId" \in DOMAIN said THEN "capture_from" ELSE c.verb
    IN  [method |-> m,
         args |-> [p \in Range(Takes[m]) |-> IF p \in DOMAIN said THEN said[p] ELSE Default(p)]]

Unfit(c) ==
    \/ Offers(c.by)[c.verb].must \ DOMAIN c.args # {}
    \/ c.by = "cli" /\ (Conflict(c.verb, c.args) \/ Formless(c.verb, c.args))

\* emulate --off drops what is said beside it, which HTTP passes on and the service refuses.
Beside(c) == c.by = "cli" /\ c.verb = "emulate" /\ "off" \in DOMAIN c.args

\* Whichever way a call takes, and whatever else it says, the service gets what the client
\* said, each value under its own parameter, and what it did not say is left to the service;
\* a call is turned away only when it is incomplete or says what does not go together
\* (client.rs, pages.rs, mcp.rs: the three must agree on every name and every place).
ArrivesAsSaid ==
    (made # Unmade /\ ~Beside(given)) =>
        IF Unfit(given) THEN made = Refused ELSE made = Meant(given)
=============================================================================
