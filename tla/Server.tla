------------------------------- MODULE Server -------------------------------
(***************************************************************************)
(* tvpvrsrv.c: the listening thread (main, startupsrv), one thread for     *)
(* each client at a terminal (clientsrv) or browser (webclientsrv), and    *)
(* the scheduler, which share recs_mutex, the table of clients and         *)
(* htmlencode_flag.  socks_mutex guards short sections that call nothing   *)
(* which waits: each is one step.                                          *)
(*                                                                         *)
(* A client connects once, sends up to MaxCmds commands and may stop       *)
(* reading what it is sent: a write to it then waits for ever.             *)
(***************************************************************************)
EXTENDS WebRequests

CONSTANTS
    Conns, NoConn,      \* the clients that connect
    Browsers,           \* those of them on the web port
    Slow,               \* those that may stop reading
    Sockets,            \* descriptors for them
    max_clients,
    require_password,
    TermCmds,           \* the commands of terminals
    Tries,              \* how often it asks for the password (3)
    MaxCmds,            \* how many commands a terminal sends
    MaxFaults           \* threads that cannot be created

ASSUME OneSocketMore == Cardinality(Sockets) > max_clients
ASSUME ServerAssumption ==
    /\ max_clients \in Nat \ {0}                        \* tvconfig.c:359
    /\ {Tries, MaxCmds, MaxFaults} \subseteq Nat
    /\ NoConn \notin Conns
    /\ Sockets \subseteq Nat \ {0}

VARIABLES
    main,               \* "serve", "closing", "waiting" or "ended"
    received_signal,
    client_socket,      \* the descriptor of each slot, 0 if none
    cli_threads,        \* the slots with a thread
    ncli_threads,
    fd,                 \* which client a descriptor is open to
    conn,               \* the thread of each client
    stalled,            \* the clients that do not read
    recs_mutex,         \* who holds it
    htmlencode_flag,
    faults

clients == <<client_socket, cli_threads, ncli_threads, fd>>
vars == <<data, main, received_signal, clients, conn, stalled, recs_mutex, htmlencode_flag, faults>>

Slots == 0 .. max_clients - 1

\* A thread: where it is (pc), its slot and socket, tries or minutes or
\* commands left (left), its command, the recordings it has collected and
\* not yet written (seen), the flag it has put aside (old), its page and
\* whether the request of it came with a login.
Nobody == [pc |-> "none", web |-> FALSE, slot |-> 0, sock |-> 0, left |-> 0,
           cmd |-> NoCmd, seen |-> {}, old |-> FALSE, page |-> "main", login |-> FALSE]

Threads == {c \in Conns : conn[c].pc \notin {"none", "hanging", "autherror", "gone"}}

Init ==
    /\ DataInit
    /\ main = "serve" /\ received_signal = FALSE
    /\ client_socket = [i \in Slots |-> 0] /\ cli_threads = {} /\ ncli_threads = 0
    /\ fd = [s \in Sockets |-> NoConn]
    /\ conn = [c \in Conns |-> Nobody]
    /\ stalled = {} /\ recs_mutex = NoConn /\ htmlencode_flag = FALSE /\ faults = 0

Up == main # "ended"

\* _writef to a descriptor: an error if it is closed, otherwise the client
\* must read.
CanWrite(s) == fd[s] \notin stalled

At(c, pc) == Up /\ conn[c].pc = pc
Goto(c, pc) == conn' = [conn EXCEPT ![c].pc = pc]
Gone(c) == conn' = [conn EXCEPT ![c] = [Nobody EXCEPT !.pc = "gone"]]

(***************************************************************************)
(* The listening thread.                                                   *)
(***************************************************************************)
FreeSlots == Slots \ cli_threads
NewSocket == Min({s \in Sockets : fd[s] = NoConn})

\* startupsrv: a connection on one of the two ports is given the first slot
\* without a thread.  pthread_create may fail before or after it has written
\* the number of the thread into the slot; the socket is then left open.
Accept(c) ==
    /\ main = "serve" /\ conn[c].pc = "none"
    /\ \E s \in Sockets : fd[s] = NoConn
    /\ FreeSlots # {}
    /\ LET i == Min(FreeSlots)
       IN  /\ client_socket' = [client_socket EXCEPT ![i] = NewSocket]
           /\ fd' = [fd EXCEPT ![NewSocket] = c]
           /\ \/ /\ cli_threads' = cli_threads \cup {i}
                 /\ ncli_threads' = ncli_threads + 1
                 /\ conn' = [conn EXCEPT ![c] = [Nobody EXCEPT !.pc = "start", !.web = (c \in Browsers), !.slot = i]]
                 /\ UNCHANGED faults
              \/ /\ faults < MaxFaults /\ faults' = faults + 1
                 /\ cli_threads' \in {cli_threads, cli_threads \cup {i}}
                 /\ Goto(c, "hanging")
                 /\ UNCHANGED ncli_threads
    /\ UNCHANGED <<data, main, received_signal, stalled, recs_mutex, htmlencode_flag>>

\* `Too many client connections.'
Refuse(c) ==
    /\ main = "serve" /\ conn[c].pc = "none" /\ FreeSlots = {}
    /\ \E s \in Sockets : fd[s] = NoConn
    /\ Gone(c)
    /\ UNCHANGED <<data, main, received_signal, clients, stalled, recs_mutex, htmlencode_flag, faults>>

\* sighand_thread notes a signal; startupsrv looks when a second has passed
\* without a connection.
Signal ==
    /\ main = "serve" /\ ~received_signal
    /\ received_signal' = TRUE
    /\ UNCHANGED <<data, main, clients, conn, stalled, recs_mutex, htmlencode_flag, faults>>

StopServing ==
    /\ main = "serve" /\ received_signal
    /\ main' = "closing"
    /\ UNCHANGED <<data, received_signal, clients, conn, stalled, recs_mutex, htmlencode_flag, faults>>

\* main: closes the sockets under recs_mutex, without socks_mutex ...
CloseAll ==
    /\ main = "closing" /\ recs_mutex = NoConn
    /\ main' = "waiting"
    /\ fd' = [s \in Sockets |-> IF \E i \in cli_threads : client_socket[i] = s THEN NoConn ELSE fd[s]]
    /\ UNCHANGED <<data, received_signal, client_socket, cli_threads, ncli_threads, conn, stalled,
                   recs_mutex, htmlencode_flag, faults>>

\* ... waits up to fifteen seconds for the recordings, and exits.
Exit ==
    /\ main = "waiting"
    /\ main' = "ended"
    /\ UNCHANGED <<data, received_signal, clients, conn, stalled, recs_mutex, htmlencode_flag, faults>>

(***************************************************************************)
(* Both kinds of threads.                                                  *)
(***************************************************************************)
same == <<main, received_signal, stalled, faults>>

\* The slot is the first one with the thread's socket.
Start(c) ==
    /\ At(c, "start")
    /\ LET s == client_socket[conn[c].slot]
           i == Min({i \in Slots : client_socket[i] = s})
       IN  conn' = [conn EXCEPT ![c].sock = s, ![c].slot = i,
                       ![c].pc = CASE conn[c].web -> "request"
                                   [] ~conn[c].web /\ require_password -> "password"
                                   [] OTHER -> "welcome",
                       ![c].left = Tries]
    /\ UNCHANGED <<data, clients, recs_mutex, htmlencode_flag, same>>

\* A mutant of Freed: the slot is looked for by its socket when it is closed.
FreedSocketFirst(c) ==
    /\ client_socket' = [client_socket EXCEPT ![conn[c].slot] = 0]
    /\ fd' = [fd EXCEPT ![conn[c].sock] = NoConn]
    /\ ncli_threads' = ncli_threads - 1
    /\ UNCHANGED cli_threads

\* The end of a thread: its slot is free, its socket closed.
Freed(c) ==
    /\ client_socket' = [client_socket EXCEPT ![conn[c].slot] = 0]
    /\ fd' = [fd EXCEPT ![conn[c].sock] = NoConn]
    /\ cli_threads' = cli_threads \ {conn[c].slot}
    /\ ncli_threads' = ncli_threads - 1

Leave(c) ==
    /\ At(c, "leave")
    /\ Freed(c)
    /\ Gone(c)
    /\ UNCHANGED <<data, recs_mutex, htmlencode_flag, same>>

\* cmdinterp: the command changes the recordings or collects them; a raw
\* answer puts the flag aside (_writeXMLFile, _cmd_list_profiles_htmllinks).
cmdinterp(c, cmd, flag) ==
    /\ Change(cmd)
    /\ htmlencode_flag' = (flag /\ ~Raw(cmd))
    /\ \E S \in Collected(cmd) :
          conn' = [conn EXCEPT ![c].pc = IF Raw(cmd) THEN "raw" ELSE "answer",
                               ![c].cmd = NoCmd, ![c].seen = S, ![c].old = flag]

\* clientsrv, html_cmd_output: the mutex, for a browser the flag, the command.
Execute(c) ==
    /\ At(c, "lock") /\ recs_mutex = NoConn
    /\ recs_mutex' = c
    /\ cmdinterp(c, conn[c].cmd, conn[c].web \/ htmlencode_flag)
    /\ UNCHANGED <<clients, same>>

\* A mutant of WriteRaw: the flag stays off.
WriteRawOnly(c) ==
    /\ At(c, "raw") /\ CanWrite(conn[c].sock)
    /\ conn' = [conn EXCEPT ![c].pc = "answer", ![c].seen = {}]
    /\ UNCHANGED <<data, clients, recs_mutex, htmlencode_flag, same>>

WriteRaw(c) ==
    /\ At(c, "raw") /\ CanWrite(conn[c].sock)
    /\ htmlencode_flag' = conn[c].old
    /\ conn' = [conn EXCEPT ![c].pc = "answer", ![c].seen = {}]
    /\ UNCHANGED <<data, clients, recs_mutex, same>>

\* A mutant of Answer: a thread whose page ends with the answer keeps the
\* mutex.
AnswerLocked(c) ==
    /\ At(c, "answer") /\ CanWrite(conn[c].sock)
    /\ recs_mutex' = IF conn[c].page = "mobile" THEN recs_mutex ELSE NoConn
    /\ htmlencode_flag' = (htmlencode_flag /\ ~conn[c].web)
    /\ conn' = [conn EXCEPT ![c].pc = CASE ~conn[c].web -> "wait"
                                        [] conn[c].page = "main" -> "next"
                                        [] OTHER -> "leave",
                            ![c].seen = {}, ![c].old = FALSE, ![c].login = FALSE]
    /\ UNCHANGED <<data, clients, same>>

\* dump_record for each recording, the empty line that ends an answer, and
\* the mutex given back.
Answer(c) ==
    /\ At(c, "answer") /\ CanWrite(conn[c].sock)
    /\ recs_mutex' = NoConn
    /\ htmlencode_flag' = (htmlencode_flag /\ ~conn[c].web)
    /\ conn' = [conn EXCEPT ![c].pc = CASE ~conn[c].web -> "wait"
                                        [] conn[c].page = "main" -> "next"
                                        [] OTHER -> "leave",
                            ![c].seen = {}, ![c].old = FALSE, ![c].login = FALSE]
    /\ UNCHANGED <<data, clients, same>>

(***************************************************************************)
(* clientsrv.                                                              *)
(***************************************************************************)
\* `Password: ' and what comes back within two minutes.
Password(c, answer) ==
    /\ At(c, "password") /\ CanWrite(conn[c].sock)
    /\ \/ /\ answer = "right"
          /\ Goto(c, "welcome") /\ UNCHANGED clients
       \/ /\ answer = "wrong" /\ conn[c].left > 1
          /\ conn' = [conn EXCEPT ![c].left = @ - 1] /\ UNCHANGED clients
       \/ /\ answer = "none" \/ (answer = "wrong" /\ conn[c].left = 1)
          /\ Freed(c)
          /\ Goto(c, "autherror")
    /\ UNCHANGED <<data, recs_mutex, htmlencode_flag, same>>

\* `Authentication error' is written to a socket that is closed by now, and
\* may be another client's.
AuthError(c) ==
    /\ At(c, "autherror") /\ CanWrite(conn[c].sock)
    /\ Gone(c)
    /\ UNCHANGED <<data, clients, recs_mutex, htmlencode_flag, same>>

Welcome(c) ==
    /\ At(c, "welcome") /\ CanWrite(conn[c].sock)
    /\ conn' = [conn EXCEPT ![c].pc = "wait", ![c].left = MaxCmds]
    /\ UNCHANGED <<data, clients, recs_mutex, htmlencode_flag, same>>

Send(c, cmd) ==
    /\ At(c, "wait") /\ conn[c].left > 0
    /\ conn' = [conn EXCEPT ![c].pc = "lock", ![c].cmd = cmd, ![c].left = @ - 1]
    /\ UNCHANGED <<data, clients, recs_mutex, htmlencode_flag, same>>

\* max_idle_time without a command, a socket closed at either end, `quit'.
EndOfInput(c, quit) ==
    /\ At(c, "wait")
    /\ quit => CanWrite(conn[c].sock)
    /\ Goto(c, "leave")
    /\ UNCHANGED <<data, clients, recs_mutex, htmlencode_flag, same>>

(***************************************************************************)
(* webclientsrv.                                                           *)
(***************************************************************************)
\* Two seconds for the request.
RequestTimeout(c) ==
    /\ At(c, "request")
    /\ Goto(c, "leave")
    /\ UNCHANGED <<data, clients, recs_mutex, htmlencode_flag, same>>

\* web_process_httprequest; html_cmd_output skips an empty command.
Request(c) ==
    /\ At(c, "request") /\ CanWrite(conn[c].sock)
    /\ \E page \in PagesServed :
          conn' = [conn EXCEPT ![c].page = page.kind, ![c].cmd = page.cmd, ![c].login = page.login,
                               ![c].pc = CASE page.cmd # NoCmd -> "lock"
                                           [] page.cmd = NoCmd /\ page.kind = "main" -> "next"
                                           [] OTHER -> "leave",
                               ![c].left = 0]
    /\ UNCHANGED <<data, clients, recs_mutex, htmlencode_flag, same>>

\* web_cmd_next, web_cmd_del: the page lists the recordings as the commands
\* do, but without the mutex: the pointers are collected ...
NextRecordings(c) ==
    /\ At(c, "next")
    /\ conn' = [conn EXCEPT ![c].pc = "rest", ![c].seen = list_recskeyval]
    /\ UNCHANGED <<data, clients, recs_mutex, htmlencode_flag, same>>

\* ... and then followed, whatever has become of the recordings.
RestOfPage(c) ==
    /\ At(c, "rest") /\ CanWrite(conn[c].sock)
    /\ conn' = [conn EXCEPT ![c].pc = "leave", ![c].seen = {}]
    /\ UNCHANGED <<data, clients, recs_mutex, htmlencode_flag, same>>

(***************************************************************************)
(* The scheduler and the clients.                                          *)
(***************************************************************************)
\* A mutant of Schedule: chkrec does not wait for the mutex.
ScheduleAnyTime ==
    /\ Up
    /\ Scheduler
    /\ UNCHANGED <<main, received_signal, clients, conn, stalled, recs_mutex, htmlencode_flag, faults>>

Schedule ==
    /\ Up /\ recs_mutex = NoConn
    /\ Scheduler
    /\ UNCHANGED <<main, received_signal, clients, conn, stalled, recs_mutex, htmlencode_flag, faults>>

Stall(c) ==
    /\ Up /\ c \in Range(fd) \cap Slow /\ stalled = {}
    /\ stalled' = {c}
    /\ UNCHANGED <<data, main, received_signal, clients, conn, recs_mutex, htmlencode_flag, faults>>

\* What a thread does as soon as it can.
Step(c) ==
    \/ Start(c) \/ Leave(c) \/ Execute(c) \/ WriteRaw(c) \/ Answer(c)
    \/ AuthError(c) \/ Welcome(c) \/ NextRecordings(c) \/ RestOfPage(c)

\* What it does when its client has sent something or the time is up.
Input(c) ==
    \/ \E answer \in {"right", "wrong", "none"} : Password(c, answer)
    \/ \E cmd \in TermCmds : Send(c, cmd)
    \/ \E quit \in BOOLEAN : EndOfInput(c, quit)
    \/ RequestTimeout(c)
    \/ Request(c)

Next ==
    \/ \E c \in Conns : Accept(c) \/ Refuse(c) \/ Step(c) \/ Input(c) \/ Stall(c)
    \/ Signal \/ StopServing \/ CloseAll \/ Exit
    \/ Schedule

\* Some thread that can go on does, select comes to an end, main stops when
\* told.  Clients and commands are finite in number, so no thread is passed
\* over for ever.
Fairness ==
    /\ WF_vars(\E c \in Conns : Step(c) \/ Input(c))
    /\ WF_vars(StopServing \/ CloseAll \/ Exit)

Spec == Init /\ [][Next]_vars /\ Fairness

(***************************************************************************)
(* Properties.                                                             *)
(***************************************************************************)
\* The tables agree with the threads whatever comes and goes: each thread
\* has a slot and a socket of its own, which is open to its client until
\* main closes it, no other slot counts as taken but one that a failed
\* pthread_create left (startupsrv, the ends of clientsrv and webclientsrv).
SlotsMatch ==
    /\ ncli_threads = Cardinality(Threads)
    /\ Cardinality(cli_threads) <= Cardinality(Threads) + faults
    /\ \A c \in Threads :
          /\ conn[c].slot \in cli_threads
          /\ conn[c].pc # "start" =>
                /\ client_socket[conn[c].slot] = conn[c].sock
                /\ fd[conn[c].sock] = c \/ main \in {"waiting", "ended"}
          /\ \A d \in Threads \ {c} : conn[d].slot # conn[c].slot

\* The answer to a command is encoded as HTML for browsers and never for
\* terminals, and the XML of the recordings for nobody, although one flag
\* for all threads decides (html_cmd_output, _writeXMLFile).
EncodedForBrowsers ==
    \A c \in Conns : /\ conn[c].pc = "answer" => htmlencode_flag = conn[c].web
                     /\ conn[c].pc = "raw" => ~htmlencode_flag

\* A command does not write of a recording that has been freed since it
\* collected the recordings (list_recs, dump_record; cmdinterp under
\* recs_mutex).
ListedAlive ==
    \A c \in Conns : conn[c].pc \in {"raw", "answer"} => conn[c].seen \subseteq Allocated

\* Does not hold (README); tvhtml.c:158: `we can only have one thread at a time accessing the data
\* structures': then no page lists a recording that has been freed either.
PageListsAlive ==
    \A c \in Conns : conn[c].pc = "rest" => conn[c].seen \subseteq Allocated

\* The command of a browser is run only if its request came with a valid
\* cookie or with the user's name and password, whatever its path
\* (web_exec_httpget, the functions of the table, html_cmd_output).
CommandsNeedLogin ==
    \A c \in Conns : conn[c].web /\ conn[c].pc \in {"lock", "raw", "answer"} =>
        conn[c].login \/ ~require_web_password

\* Every thread gives its slot back in the end, unless a client stops reading
\* or the server ends (clientsrv, webclientsrv: all wait for recs_mutex,
\* which a command holds while it writes).
SlotsFreed ==
    Threads # {} ~> (Threads = {} \/ stalled # {} \/ main = "ended")
=============================================================================
