---------------------------- MODULE WebRequests ----------------------------
(***************************************************************************)
(* httpreq.c, tvwebcmd.c: how a request of a browser becomes a page and    *)
(* the command whose output the page shows.  A form of the page turns into *)
(* the command a client at a terminal would type.  What a form sets for    *)
(* the looks of the page (the theme) or for the names of a series (the     *)
(* advanced controls of `addrec') is left out.                             *)
(***************************************************************************)
EXTENDS Commands, SequencesExt

CONSTANTS
    require_web_password,
    use_mobile,
    WebUsers,           \* user and password as typed into the login form
    web_user,           \* those of the configuration
    NoCookie, NoGet,
    WebCmds             \* the commands "/cmd?c=" is asked for

(***************************************************************************)
(* httpreq.c: the header and the GET line.                                 *)
(***************************************************************************)
\* A cookie is made of the user and the password, and of things that stay.
create_login_cookie(user) == [cookie |-> user]
validate_login(user) == user = web_user
validate_cookie(cookie) == cookie = create_login_cookie(web_user)

\* The header lines that count (web_parse_httpreq): the browser's cookie,
\* and whether it is mobile.
Headers == [Cookie : {NoCookie} \cup {create_login_cookie(u) : u \in WebUsers}, UserAgent : {"mobile", "other"}]

is_mobile_connection(headers) == use_mobile /\ headers.UserAgent = "mobile"
web_validate_login(headers) == headers.Cookie # NoCookie /\ validate_cookie(headers.Cookie)

\* The GET line (web_parse_httpget): a path and arguments, which the path's
\* function takes or not, or of the wrong number; or no GET line at all.
Gets ==
    [file : {"login", "logout", "addrec", "addqrec", "delrec", "chwt", "killrec", "cmd", "", "tvpvrd.css", "x.html"},
     args : {"right", "wrong", "miscounted"},
     user : WebUsers, cmd : WebCmds, card : Videos, id : 1..MaxNbr, series : BOOLEAN]

Requests == [headers : Headers, get : Gets \cup {NoGet}]

(***************************************************************************)
(* tvwebcmd.c: the page that is sent, and the command that is run for it.  *)
(***************************************************************************)
Page(kind, cmd) == [kind |-> kind, cmd |-> cmd]
Main(headers, cmd) == Page(IF is_mobile_connection(headers) THEN "mobile" ELSE "main", cmd)
LoginPage == Page("login", NoCmd)
StaticFile == Page("file", NoCmd)
Undone == Page("none", NoCmd)

\* What a form comes to if it has the arguments it needs.
Form(headers, get, cmd) == IF get.args = "right" THEN Main(headers, cmd) ELSE Undone

_web_cmd_logout == LoginPage
_web_cmd_login(headers, get) ==
    IF ~require_web_password \/ (get.args = "right" /\ validate_login(get.user))
    THEN Main(headers, Cmd("v", 0)) ELSE LoginPage
_web_cmd_addrec(headers, get) == Form(headers, get, Cmd(IF get.series THEN "ar" ELSE "a", 0))
_web_cmd_addqrec(headers, get) == Form(headers, get, Cmd("q", 0))
_web_cmd_delrec(headers, get) == Form(headers, get, Cmd(IF get.series THEN "dr" ELSE "d", get.id))
_web_cmd_chwt(headers, get) == Form(headers, get, Cmd("t", 0))
_web_cmd_killrec(headers, get) == Form(headers, get, Cmd("!", get.card))
_web_cmd_command(headers, get) == Form(headers, get, get.cmd)
_web_cmd_default(headers) == Main(headers, Cmd("t", 0))

\* The table of init_web_cmds.
web_cmds(headers, get) ==
    CASE get.file = "login"   -> _web_cmd_login(headers, get)
      [] get.file = "logout"  -> _web_cmd_logout
      [] get.file = "addrec"  -> _web_cmd_addrec(headers, get)
      [] get.file = "addqrec" -> _web_cmd_addqrec(headers, get)
      [] get.file = "delrec"  -> _web_cmd_delrec(headers, get)
      [] get.file = "chwt"    -> _web_cmd_chwt(headers, get)
      [] get.file = "killrec" -> _web_cmd_killrec(headers, get)
      [] get.file = "cmd"     -> _web_cmd_command(headers, get)
      [] get.file = ""        -> _web_cmd_default(headers)
      [] OTHER -> Undone

web_dispatch_httpget_cmd(headers, get) ==
    IF get.args = "miscounted" THEN Undone ELSE web_cmds(headers, get)

\* A form that does nothing is taken for the name of a file.
web_dispatch(headers, get) ==
    LET page == web_dispatch_httpget_cmd(headers, get) IN IF page = Undone THEN StaticFile ELSE page

IsStyle(file) == file = "tvpvrd.css"

\* A mutant of web_exec_httpget: the dispatcher is asked first, whoever asks.
web_exec_httpget_dispatch_first(headers, get) ==
    IF web_dispatch(headers, get) # StaticFile \/ IsStyle(get.file) THEN web_dispatch(headers, get) ELSE LoginPage

web_exec_httpget(headers, get) ==
    CASE web_validate_login(headers) \/ ~require_web_password -> web_dispatch(headers, get)
      [] get.file = "login" -> _web_cmd_login(headers, get)
      [] IsStyle(get.file) -> StaticFile
      [] OTHER -> LoginPage

web_process_httprequest(r) ==
    IF r.get = NoGet THEN Main(r.headers, NoCmd) ELSE web_exec_httpget(r.headers, r.get)

\* Whether a request comes with a login: a valid cookie, or the form.
HasLogin(r) ==
    \/ r.headers.Cookie = create_login_cookie(web_user)
    \/ r.get # NoGet /\ r.get.file = "login" /\ r.get.user = web_user

\* What the requests come to.
PagesServed ==
    {LET page == web_process_httprequest(r)
     IN  [kind |-> page.kind, cmd |-> page.cmd, login |-> page.cmd # NoCmd /\ HasLogin(r)] :
       r \in Requests}
=============================================================================
