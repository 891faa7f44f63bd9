---------------------------- MODULE ServerProofs ----------------------------
(***************************************************************************)
(* Theorems about the clients of the server, for any clients, sockets,     *)
(* cards, users and commands and for a table of any size.                  *)
(***************************************************************************)
EXTENDS Server, FiniteSetTheorems, WellFoundedInduction, TLAPS

-----------------------------------------------------------------------------
(* The states. *)

Pc == {"none", "start", "request", "password", "welcome", "wait", "lock", "raw", "answer", "next",
       "rest", "leave", "hanging", "autherror", "gone"}

\* The commands a thread can have, and the pages.
Cmds == TermCmds \cup {NoCmd} \cup {page.cmd : page \in PagesServed}
PageKinds == {"main"} \cup {page.kind : page \in PagesServed}

Client == [pc : Pc, web : BOOLEAN, slot : Slots, sock : Nat, left : Int, cmd : Cmds,
           seen : SUBSET Recordings, old : BOOLEAN, page : PageKinds, login : BOOLEAN]

DataTyped ==
  /\ pending \subseteq Recordings
  /\ ongoing \in [Videos -> Recordings \cup {NoRec}]
  /\ nbr \in Nat \ {0}

TablesTyped ==
  /\ client_socket \in [Slots -> Sockets \cup {0}]
  /\ cli_threads \subseteq Slots
  /\ fd \in [Sockets -> Conns \cup {NoConn}]
  /\ faults \in Nat

TypeOK ==
  /\ DataTyped
  /\ TablesTyped
  /\ conn \in [Conns -> Client]
  /\ recs_mutex \in Conns \cup {NoConn}
  /\ htmlencode_flag \in BOOLEAN

(* The constants, as the steps below need them. *)
LEMMA Constants ==
  /\ max_clients \in Nat \ {0} /\ Tries \in Nat /\ MaxCmds \in Nat /\ MaxFaults \in Nat /\ MaxNbr \in Nat
  /\ NoConn \notin Conns
  /\ Sockets \subseteq Nat /\ 0 \notin Sockets
  /\ Slots \subseteq Nat /\ 0 \in Slots
BY ServerAssumption, MaxNbrAssumption DEF Slots

(* The first free slot, or descriptor, is one of those that are free. *)
LEMMA MinIsIn ==
  ASSUME NEW S \in SUBSET Nat, S # {}
  PROVE  Min(S) \in S
<1>1. \E s \in S : \A u \in S : ~(<<u, s>> \in OpToRel(<, Nat))
  BY WFMin, NatLessThanWellFounded, Zenon
<1>2. \A u, t \in Nat : <<u, t>> \in OpToRel(<, Nat) <=> u < t
  BY Zenon DEF OpToRel
<1>3. \E s \in S : \A u \in S : ~(u < s)
  BY <1>1, <1>2, Zenon
<1>4. \E s \in S : \A u \in S : s <= u
  BY <1>3, SMT
<1>5. QED
  BY <1>4 DEF Min

-----------------------------------------------------------------------------
(* What a command does to the recordings, and which it shows. *)

(* The recordings of a new series, or a single new one, have numbers below the next free one. *)
LEMMA NewTyped ==
  ASSUME NEW n \in Nat \ {0}, nbr = n, NEW v \in Videos, NEW repeat \in BOOLEAN,
         n + Cardinality(New(v, repeat)) <= MaxNbr + 1
  PROVE  New(v, repeat) \subseteq Recordings /\ n + Cardinality(New(v, repeat)) \in Nat \ {0}
<1>0. MaxNbr \in Nat
  BY Constants
<1>1. CASE repeat
  <2> DEFINE first == [nbr |-> n, video |-> v, series |-> n]
             second == [nbr |-> n + 1, video |-> v, series |-> n]
  <2>1. New(v, repeat) = {first, second}
    BY <1>1 DEF New
  <2>2. first # second
    <3>1. first.nbr # second.nbr
      OBVIOUS
    <3>2. QED
      BY <3>1
  <2>3. Cardinality(New(v, repeat)) = 2
    <3>1. IsFiniteSet({first}) /\ Cardinality({first}) = 1
      BY FS_Singleton
    <3>2. {first} \cup {second} = {first, second} /\ second \notin {first}
      BY <2>2
    <3>3. Cardinality({first} \cup {second}) = 2
      BY <3>1, <3>2, FS_AddElement
    <3>4. QED
      BY <2>1, <3>2, <3>3
  <2>4. n + 1 <= MaxNbr
    BY <2>3, <1>0
  <2>5. first \in Recordings /\ second \in Recordings
    BY <2>4, <1>0 DEF Recordings
  <2>6. QED
    BY <2>1, <2>3, <2>5
<1>2. CASE ~repeat
  <2> DEFINE single == [nbr |-> n, video |-> v, series |-> 0]
  <2>1. New(v, repeat) = {single}
    BY <1>2 DEF New
  <2>2. Cardinality(New(v, repeat)) = 1
    BY <2>1, FS_Singleton
  <2>3. single \in Recordings
    BY <2>2, <1>0 DEF Recordings
  <2>4. QED
    BY <2>1, <2>2, <2>3
<1>3. QED
  BY <1>1, <1>2

(* Adding recordings keeps the types of the data. *)
LEMMA AddTyped ==
  ASSUME DataTyped, NEW repeat \in BOOLEAN, _cmd_add(repeat)
  PROVE  DataTyped'
<1>1. CASE UNCHANGED data
  BY <1>1 DEF DataTyped, data
<1>2. CASE \E v \in Videos :
             /\ nbr + Cardinality(New(v, repeat)) <= MaxNbr + 1
             /\ pending' = pending \cup New(v, repeat)
             /\ nbr' = nbr + Cardinality(New(v, repeat))
             /\ UNCHANGED <<ongoing, abort_video>>
  <2>1. PICK v \in Videos :
             /\ nbr + Cardinality(New(v, repeat)) <= MaxNbr + 1
             /\ pending' = pending \cup New(v, repeat)
             /\ nbr' = nbr + Cardinality(New(v, repeat))
             /\ UNCHANGED <<ongoing, abort_video>>
    BY <1>2
  <2>2. New(v, repeat) \subseteq Recordings /\ nbr + Cardinality(New(v, repeat)) \in Nat \ {0}
    BY <2>1, NewTyped DEF DataTyped
  <2>3. QED
    BY <2>1, <2>2 DEF DataTyped
<1>3. QED
  BY <1>1, <1>2 DEF _cmd_add

(* Whatever the command, the data keep their types. *)
LEMMA ChangeTyped ==
  ASSUME DataTyped, NEW cmd, Change(cmd)
  PROVE  DataTyped'
<1>1. \A id, all : _cmd_delete(id, all) => DataTyped'
  BY DEF _cmd_delete, DataTyped
<1>2. \A v : _cmd_abort(v) => DataTyped'
  BY DEF _cmd_abort, DataTyped
<1>3. UNCHANGED data => DataTyped'
  BY DEF data, DataTyped
<1>4. _cmd_addfromfile => DataTyped'
  BY AddTyped DEF _cmd_addfromfile
<1>5. _cmd_add(FALSE) \/ _cmd_add(TRUE) => DataTyped'
  BY AddTyped
<1>6. QED
  BY <1>1, <1>2, <1>3, <1>4, <1>5 DEF Change, _cmd_quickrecording

(* So do they when the scheduler runs. *)
LEMMA SchedulerTyped ==
  ASSUME DataTyped, Scheduler
  PROVE  DataTyped'
<1>1. CASE MissRec
  BY <1>1 DEF MissRec, DataTyped
<1>2. ASSUME NEW v \in Videos, StartRec(v)
      PROVE  DataTyped'
  BY <1>2 DEF StartRec, DataTyped
<1>3. ASSUME NEW v \in Videos, EndRec(v)
      PROVE  DataTyped'
  BY <1>3 DEF EndRec, DataTyped
<1>4. QED
  BY <1>1, <1>2, <1>3 DEF Scheduler

(* `lmr' shows some of what `lr' does, and some of what `lm' does. *)
LEMMA RecordingsMailed ==
  \A n : \A M \in _cmd_maillist_recsingle(n) :
    M = {} \/ \E R \in _cmd_listrep, U \in list_recs(n) : M = R \cup Singles(U)
<1> TAKE n
<1>1. CASE n \in 0..99
  <2>1. _cmd_maillist_recsingle(n) = {R \cup U : R \in _cmd_listrep, U \in {Singles(S) : S \in list_recs(n)}}
    BY <1>1 DEF _cmd_maillist_recsingle, listhtml_recsbuff
  <2>2. QED
    BY <2>1
<1>2. CASE n \notin 0..99
  BY <1>2 DEF _cmd_maillist_recsingle
<1>3. QED
  BY <1>1, <1>2

(* A command that shows recordings changes none, and shows those that are there. *)
LEMMA CollectedAlive ==
  ASSUME DataTyped, NEW cmd, Change(cmd), NEW S \in Collected(cmd)
  PROVE  S \subseteq Recordings /\ S \subseteq Allocated'
<1> DEFINE op == _getCmdPtr(cmd.op)
           Shows == {"l", "lh", "lts", "lu", "lr", "lm", "lmr", "n", "o", "x", "xx"}
<1>1. pending \subseteq Allocated /\ pending \subseteq Recordings
  BY DEF Allocated, DataTyped
<1>2. op \in Shows => UNCHANGED data
  BY DEF Change
<1>3. UNCHANGED data => Allocated' = Allocated
  BY DEF Allocated, data
<1>4. \A n : \A T \in list_recs(n) : T \subseteq pending
  BY DEF list_recs, kSubset
<1>5. \A n : \A T \in _cmd_list(n) : T \subseteq pending
  BY <1>4 DEF _cmd_list
<1>6. \A R, T : Singles(R) \subseteq R
  BY DEF Singles
<1>7. \A T \in _cmd_listrep : T \subseteq pending
  BY DEF _cmd_listrep, Firsts
<1>8. \A T \in _cmd_nextrec : T \subseteq pending
  BY DEF _cmd_nextrec, Firsts
<1>9. \A n, o : \A T \in listhtml_recsbuff(n, o) : T \subseteq pending
  BY <1>4, <1>6 DEF listhtml_recsbuff
<1>10. \A n : \A T \in _cmd_maillist_html(n) : T \subseteq pending
  BY <1>9 DEF _cmd_maillist_html
<1>11. \A n : \A T \in _cmd_maillist_recsingle(n) : T \subseteq pending
  <2>1. TAKE n
  <2>2. TAKE M \in _cmd_maillist_recsingle(n)
  <2>3. M = {} \/ \E R \in _cmd_listrep, U \in list_recs(n) : M = R \cup Singles(U)
    BY <2>2, RecordingsMailed
  <2>4. \A R \in _cmd_listrep, U \in list_recs(n) : R \cup Singles(U) \subseteq pending
    BY <1>4, <1>6, <1>7
  <2>5. QED
    BY <2>3, <2>4
<1>12. \A v : \A T \in _cmd_ongoingrec(v) : T \subseteq Recordings /\ T \subseteq Allocated
  BY DEF _cmd_ongoingrec, DataTyped, Allocated, Range
<1>13. CASE op \in Shows
  <2>1. S \subseteq Recordings /\ S \subseteq Allocated
    BY <1>13, <1>1, <1>4, <1>5, <1>6, <1>7, <1>8, <1>10, <1>11, <1>12
       DEF Collected, _cmd_list_ts, _cmd_listsingle
  <2>2. QED
    BY <2>1, <1>13, <1>2, <1>3
<1>14. CASE op \notin Shows
  <2>1. S = {}
    BY <1>14 DEF Collected
  <2>2. QED
    BY <2>1
<1>15. QED
  BY <1>13, <1>14
-----------------------------------------------------------------------------
(* Types. *)

(* Whichever page is served, its command and its kind are of those told apart. *)
LEMMA PagesTyped ==
  /\ \A page \in PagesServed : page.cmd \in Cmds /\ page.kind \in PageKinds /\ page.login \in BOOLEAN
  /\ NoCmd \in Cmds /\ "main" \in PageKinds /\ TermCmds \subseteq Cmds
<1>1. \A page \in PagesServed : page.login \in BOOLEAN
  <2>1. TAKE page \in PagesServed
  <2>2. PICK r \in Requests :
          page = [kind |-> web_process_httprequest(r).kind, cmd |-> web_process_httprequest(r).cmd,
                  login |-> web_process_httprequest(r).cmd # NoCmd /\ HasLogin(r)]
    BY DEF PagesServed
  <2>3. page.login = (web_process_httprequest(r).cmd # NoCmd /\ HasLogin(r))
    BY <2>2
  <2>4. (web_process_httprequest(r).cmd # NoCmd /\ HasLogin(r)) \in BOOLEAN
    BY Zenon
  <2>5. QED
    BY <2>3, <2>4, Zenon
<1>2. QED
  BY <1>1 DEF Cmds, PageKinds

(* A client has no thread, then a thread that starts, and in the end none again. *)
LEMMA NobodyTyped ==
  /\ Nobody \in Client
  /\ \A pc \in Pc : [Nobody EXCEPT !.pc = pc] \in Client
  /\ \A web \in BOOLEAN, i \in Slots :
        [Nobody EXCEPT !.pc = "start", !.web = web, !.slot = i] \in Client
<1>1. NoCmd \in Cmds /\ "main" \in PageKinds
  BY PagesTyped
<1>2. Nobody \in Client
  <2>1. Nobody = [pc |-> "none", web |-> FALSE, slot |-> 0, sock |-> 0, left |-> 0, cmd |-> NoCmd,
                  seen |-> {}, old |-> FALSE, page |-> "main", login |-> FALSE]
    BY DEF Nobody
  <2>2. {} \in SUBSET Recordings /\ "none" \in Pc
    BY DEF Pc
  <2> HIDE DEF Cmds, PageKinds, Pc, Recordings, NoCmd
  <2>3. QED
    BY <1>1, <2>1, <2>2, Constants DEF Client
<1>3. QED
  <2>1. \A pc \in Pc : [Nobody EXCEPT !.pc = pc] \in Client
    BY <1>2 DEF Client
  <2>2. ASSUME NEW web \in BOOLEAN, NEW i \in Slots
        PROVE  [Nobody EXCEPT !.pc = "start", !.web = web, !.slot = i] \in Client
    <3>1. "start" \in Pc
      BY DEF Pc
    <3>2. QED
      BY <1>2, <3>1 DEF Client
  <2>3. QED
    BY <1>2, <2>1, <2>2

(* A thread that goes on, or goes, is one. *)
LEMMA ClientTyped ==
  ASSUME conn \in [Conns -> Client], NEW c \in Conns
  PROVE  /\ \A pc \in Pc : Goto(c, pc) => conn' \in [Conns -> Client]
         /\ Gone(c) => conn' \in [Conns -> Client]
<1>1. conn[c] \in Client
  OBVIOUS
<1>2. \A pc \in Pc : [conn[c] EXCEPT !.pc = pc] \in Client
  BY <1>1 DEF Client
<1>3. [Nobody EXCEPT !.pc = "gone"] \in Client
  BY NobodyTyped DEF Pc
<1>4. QED
  BY <1>2, <1>3 DEF Goto, Gone

(* startupsrv takes a slot and a descriptor that are free. *)
LEMMA AcceptTakesFree ==
  ASSUME TypeOK, NEW c \in Conns, Accept(c)
  PROVE  /\ Min(FreeSlots) \in Slots \ cli_threads
         /\ NewSocket \in Sockets /\ fd[NewSocket] = NoConn
<1>1. FreeSlots \in SUBSET Nat /\ FreeSlots # {}
  BY Constants DEF Accept, FreeSlots
<1>2. {s \in Sockets : fd[s] = NoConn} \in SUBSET Nat /\ {s \in Sockets : fd[s] = NoConn} # {}
  BY Constants DEF Accept
<1>3. Min(FreeSlots) \in FreeSlots
  BY <1>1, MinIsIn
<1>4. NewSocket \in {s \in Sockets : fd[s] = NoConn}
  BY <1>2, MinIsIn DEF NewSocket
<1>5. QED
  BY <1>3, <1>4 DEF FreeSlots

(* The listening thread keeps the types. *)
LEMMA AcceptTyped ==
  ASSUME TypeOK, NEW c \in Conns, Accept(c)
  PROVE  TypeOK'
<1> DEFINE i == Min(FreeSlots)
           new == [Nobody EXCEPT !.pc = "start", !.web = (c \in Browsers), !.slot = i]
<1>0. (c \in Browsers) \in BOOLEAN
  OBVIOUS
<1>1. i \in Slots /\ i \in Nat /\ NewSocket \in Sockets /\ NewSocket \in Nat
  BY AcceptTakesFree, Constants
<1>2. client_socket' = [client_socket EXCEPT ![i] = NewSocket] /\ fd' = [fd EXCEPT ![NewSocket] = c]
  BY DEF Accept
<1>3. /\ cli_threads' = cli_threads \/ cli_threads' = cli_threads \cup {i}
      /\ faults' = faults \/ faults' = faults + 1
      /\ conn' = [conn EXCEPT ![c] = new] \/ Goto(c, "hanging")
      /\ UNCHANGED <<data, recs_mutex, htmlencode_flag>>
  BY DEF Accept
<1> HIDE DEF i
<1>4. TablesTyped'
  BY <1>1, <1>2, <1>3 DEF TypeOK, TablesTyped
<1>5. new \in Client
  BY <1>0, <1>1, NobodyTyped
<1>6. conn' \in [Conns -> Client]
  BY <1>3, <1>5, ClientTyped DEF TypeOK, Pc
<1>7. QED
  BY <1>3, <1>4, <1>6 DEF TypeOK, DataTyped, data

(* The client has a thread then, or hangs. *)
LEMMA AcceptStarts ==
  ASSUME TypeOK, NEW c \in Conns, Accept(c)
  PROVE  /\ conn[c].pc = "none"
         /\ \/ conn'[c].pc = "start" /\ conn'[c].slot = Min(FreeSlots)
            \/ conn'[c].pc = "hanging"
<1> DEFINE web == c \in Browsers
           i == Min(FreeSlots)
<1>0. conn \in [Conns -> Client] /\ conn[c] \in Client
  BY DEF TypeOK
<1>1. conn' = [conn EXCEPT ![c] = [Nobody EXCEPT !.pc = "start", !.web = web, !.slot = i]]
      \/ Goto(c, "hanging")
  BY DEF Accept
<1> HIDE DEF web, i
<1>2. /\ [Nobody EXCEPT !.pc = "start", !.web = web, !.slot = i].pc = "start"
      /\ [Nobody EXCEPT !.pc = "start", !.web = web, !.slot = i].slot = i
  BY DEF Nobody
<1>3. Goto(c, "hanging") => conn'[c].pc = "hanging"
  BY <1>0 DEF Goto, Client
<1>4. (conn'[c].pc = "start" /\ conn'[c].slot = i) \/ conn'[c].pc = "hanging"
  BY <1>0, <1>1, <1>2, <1>3
<1>5. QED
  BY <1>4 DEF Accept, i

(* A thread that ends frees a slot and a descriptor of the tables. *)
LEMMA FreedTyped ==
  ASSUME TypeOK, NEW c \in Conns, Freed(c), UNCHANGED faults
  PROVE  TablesTyped'
BY DEF Freed, TypeOK, TablesTyped

(* A step that leaves data and tables alone, and the mutex and the flag, keeps the types if that of *)
(* the client whose thread it is stays right. *)
LEMMA LocalTyped ==
  ASSUME TypeOK, UNCHANGED <<data, clients, recs_mutex, htmlencode_flag, same>>, conn' \in [Conns -> Client]
  PROVE  TypeOK'
BY DEF TypeOK, DataTyped, TablesTyped, data, clients, same

(* The first slot with the socket of a thread that starts is one. *)
LEMMA StartFindsSlot ==
  ASSUME TypeOK, NEW c \in Conns
  PROVE  LET s == client_socket[conn[c].slot]
             i == Min({i \in Slots : client_socket[i] = s})
         IN  s \in Sockets \cup {0} /\ i \in Slots /\ client_socket[i] = s
<1> DEFINE s == client_socket[conn[c].slot]
           S == {i \in Slots : client_socket[i] = s}
<1>1. conn[c].slot \in Slots
  BY DEF TypeOK, Client
<1>2. S \in SUBSET Nat /\ S # {}
  BY <1>1, Constants
<1>3. Min(S) \in S
  BY <1>2, MinIsIn
<1>4. QED
  BY <1>1, <1>3 DEF TypeOK, TablesTyped

(* A thread that starts finds its slot and its socket, and what kind of client it has. *)
LEMMA ThreadStarts ==
  ASSUME TypeOK, NEW c \in Conns, Start(c)
  PROVE  LET s == client_socket[conn[c].slot]
         IN  /\ conn[c].pc = "start" /\ conn'[c].pc \in {"request", "password", "welcome"}
             /\ conn'[c].pc # "request" => ~conn[c].web
             /\ conn'[c].web = conn[c].web
             /\ conn'[c].sock = s
             /\ conn'[c].slot = Min({i \in Slots : client_socket[i] = s})
<1> DEFINE s == client_socket[conn[c].slot]
           i == Min({j \in Slots : client_socket[j] = s})
           pc == CASE conn[c].web -> "request"
                   [] ~conn[c].web /\ require_password -> "password"
                   [] OTHER -> "welcome"
<1>0. conn \in [Conns -> Client] /\ conn[c] \in Client
  BY DEF TypeOK
<1>1. conn' = [conn EXCEPT ![c].sock = s, ![c].slot = i, ![c].pc = pc, ![c].left = Tries]
  BY DEF Start
<1>2. conn[c].web \in BOOLEAN
  BY <1>0 DEF Client
<1>3. pc \in {"request", "password", "welcome"} /\ (pc # "request" => ~conn[c].web)
  BY <1>2
<1> HIDE DEF s, i, pc
<1>4. conn'[c].sock = s /\ conn'[c].slot = i /\ conn'[c].pc = pc /\ conn'[c].web = conn[c].web
  BY <1>0, <1>1 DEF Client
<1>5. QED
  BY <1>3, <1>4 DEF Start, At, s, i

(* Every step of a thread keeps the types. *)
LEMMA StepTyped ==
  ASSUME TypeOK, NEW c \in Conns, Step(c)
  PROVE  TypeOK'
<1>0. conn \in [Conns -> Client] /\ conn[c] \in Client
  BY DEF TypeOK
<1>1. CASE Start(c)
  <2> DEFINE s == client_socket[conn[c].slot]
             i == Min({j \in Slots : client_socket[j] = s})
             pc == CASE conn[c].web -> "request"
                     [] ~conn[c].web /\ require_password -> "password"
                     [] OTHER -> "welcome"
  <2>1. s \in Nat /\ i \in Slots
    BY StartFindsSlot, Constants
  <2>2. pc \in Pc /\ Tries \in Int
    BY Constants DEF Pc
  <2>3. conn' = [conn EXCEPT ![c].sock = s, ![c].slot = i, ![c].pc = pc, ![c].left = Tries]
    BY <1>1 DEF Start
  <2> HIDE DEF s, i, pc
  <2>4. conn' \in [Conns -> Client]
    BY <1>0, <2>1, <2>2, <2>3 DEF Client
  <2>5. QED
    BY <1>1, <2>4, LocalTyped DEF Start
<1>2. CASE Leave(c)
  <2>1. TablesTyped'
    BY <1>2, FreedTyped DEF Leave, same
  <2>2. QED
    BY <1>2, <2>1, ClientTyped DEF Leave, TypeOK, DataTyped, data
<1>3. CASE Execute(c)
  <2> DEFINE cmd == conn[c].cmd
             flag == conn[c].web \/ htmlencode_flag
  <2>1. Change(cmd) /\ htmlencode_flag' = (flag /\ ~Raw(cmd)) /\ recs_mutex' = c
        /\ UNCHANGED <<clients, same>>
    BY <1>3 DEF Execute, cmdinterp
  <2>2. PICK S \in Collected(cmd) :
          conn' = [conn EXCEPT ![c].pc = IF Raw(cmd) THEN "raw" ELSE "answer",
                               ![c].cmd = NoCmd, ![c].seen = S, ![c].old = flag]
    BY <1>3 DEF Execute, cmdinterp
  <2>3. S \subseteq Recordings
    BY <2>1, <2>2, CollectedAlive DEF TypeOK
  <2>4. flag \in BOOLEAN /\ (flag /\ ~Raw(cmd)) \in BOOLEAN
    OBVIOUS
  <2>5. (IF Raw(cmd) THEN "raw" ELSE "answer") \in Pc
    BY DEF Pc
  <2>6. NoCmd \in Cmds
    BY PagesTyped
  <2>7. DataTyped'
    BY <2>1, ChangeTyped DEF TypeOK
  <2> HIDE DEF cmd, flag
  <2>8. conn' \in [Conns -> Client]
    <3> DEFINE pc == IF Raw(cmd) THEN "raw" ELSE "answer"
    <3>1. pc \in Pc /\ conn' = [conn EXCEPT ![c].pc = pc, ![c].cmd = NoCmd, ![c].seen = S, ![c].old = flag]
      BY <2>2, <2>5
    <3> HIDE DEF pc
    <3>2. QED
      BY <1>0, <2>3, <2>4, <2>6, <3>1 DEF Client
  <2>9. TablesTyped'
    BY <2>1 DEF TypeOK, TablesTyped, clients, same
  <2>10. QED
    BY <2>1, <2>4, <2>7, <2>8, <2>9 DEF TypeOK
<1>4. CASE WriteRaw(c)
  <2>1. conn' \in [Conns -> Client] /\ htmlencode_flag' \in BOOLEAN
    BY <1>0, <1>4 DEF WriteRaw, Client, Pc
  <2>2. QED
    BY <1>4, <2>1 DEF WriteRaw, TypeOK, DataTyped, TablesTyped, data, clients, same
<1>5. CASE Answer(c)
  <2>1. conn' \in [Conns -> Client]
    BY <1>0, <1>5 DEF Answer, Client, Pc
  <2>2. htmlencode_flag' \in BOOLEAN /\ recs_mutex' = NoConn
    BY <1>5 DEF Answer
  <2>3. QED
    BY <1>5, <2>1, <2>2 DEF Answer, TypeOK, DataTyped, TablesTyped, data, clients, same
<1>6. CASE AuthError(c)
  BY <1>0, <1>6, ClientTyped, LocalTyped DEF AuthError
<1>7. CASE Welcome(c)
  <2>1. conn' \in [Conns -> Client]
    <3>1. conn' = [conn EXCEPT ![c].pc = "wait", ![c].left = MaxCmds] /\ MaxCmds \in Int
      BY <1>7, Constants DEF Welcome
    <3>2. QED
      BY <1>0, <3>1 DEF Client, Pc
  <2>2. QED
    BY <1>7, <2>1, LocalTyped DEF Welcome
<1>8. CASE NextRecordings(c)
  <2>1. conn' \in [Conns -> Client]
    BY <1>0, <1>8 DEF NextRecordings, Client, Pc, list_recskeyval, TypeOK, DataTyped
  <2>2. QED
    BY <1>8, <2>1, LocalTyped DEF NextRecordings
<1>9. CASE RestOfPage(c)
  <2>1. conn' \in [Conns -> Client]
    BY <1>0, <1>9 DEF RestOfPage, Client, Pc
  <2>2. QED
    BY <1>9, <2>1, LocalTyped DEF RestOfPage
<1>10. QED
  BY <1>1, <1>2, <1>3, <1>4, <1>5, <1>6, <1>7, <1>8, <1>9 DEF Step

(* So does everything a client sends. *)
LEMMA InputTyped ==
  ASSUME TypeOK, NEW c \in Conns, Input(c)
  PROVE  TypeOK'
<1>0. conn \in [Conns -> Client] /\ conn[c] \in Client
  BY DEF TypeOK
<1>1. ASSUME NEW answer, Password(c, answer)
      PROVE  TypeOK'
  <2>1. CASE UNCHANGED clients
    <3>1. conn' \in [Conns -> Client]
      <4>1. CASE Goto(c, "welcome")
        BY <4>1, <1>0, ClientTyped DEF Pc
      <4>2. CASE conn' = [conn EXCEPT ![c].left = @ - 1]
        BY <4>2, <1>0 DEF Client
      <4>3. CASE Goto(c, "autherror")
        BY <4>3, <1>0, ClientTyped DEF Pc
      <4>4. QED
        BY <1>1, <4>1, <4>2, <4>3 DEF Password
    <3>2. QED
      BY <1>1, <2>1, <3>1, LocalTyped DEF Password
  <2>2. CASE Freed(c) /\ Goto(c, "autherror")
    <3>1. TablesTyped'
      BY <1>1, <2>2, FreedTyped DEF Password, same
    <3>2. conn' \in [Conns -> Client]
      BY <2>2, <1>0, ClientTyped DEF Pc
    <3>3. QED
      BY <1>1, <3>1, <3>2 DEF Password, TypeOK, DataTyped, data
  <2>3. QED
    BY <1>1, <2>1, <2>2 DEF Password
<1>2. ASSUME NEW cmd \in TermCmds, Send(c, cmd)
      PROVE  TypeOK'
  <2>1. cmd \in Cmds
    BY PagesTyped
  <2>2. conn' \in [Conns -> Client]
    BY <1>0, <1>2, <2>1 DEF Send, Client, Pc
  <2>3. QED
    BY <1>2, <2>2, LocalTyped DEF Send
<1>3. ASSUME NEW quit, EndOfInput(c, quit)
      PROVE  TypeOK'
  BY <1>0, <1>3, ClientTyped, LocalTyped DEF EndOfInput, Pc
<1>4. CASE RequestTimeout(c)
  BY <1>0, <1>4, ClientTyped, LocalTyped DEF RequestTimeout, Pc
<1>5. CASE Request(c)
  <2>1. PICK page \in PagesServed :
          conn' = [conn EXCEPT ![c].page = page.kind, ![c].cmd = page.cmd, ![c].login = page.login,
                               ![c].pc = CASE page.cmd # NoCmd -> "lock"
                                           [] page.cmd = NoCmd /\ page.kind = "main" -> "next"
                                           [] OTHER -> "leave",
                               ![c].left = 0]
    BY <1>5 DEF Request
  <2> DEFINE pc == CASE page.cmd # NoCmd -> "lock"
                     [] page.cmd = NoCmd /\ page.kind = "main" -> "next"
                     [] OTHER -> "leave"
  <2>2. page.cmd \in Cmds /\ page.kind \in PageKinds /\ page.login \in BOOLEAN
    BY PagesTyped
  <2>3. pc \in Pc
    BY DEF Pc
  <2>4. conn' = [conn EXCEPT ![c].page = page.kind, ![c].cmd = page.cmd, ![c].login = page.login,
                             ![c].pc = pc, ![c].left = 0]
    BY <2>1
  <2> HIDE DEF pc
  <2>5. conn' \in [Conns -> Client]
    <3>1. ASSUME NEW kind \in PageKinds, NEW cmd \in Cmds, NEW login \in BOOLEAN, NEW p \in Pc
          PROVE  [conn[c] EXCEPT !.page = kind, !.cmd = cmd, !.login = login, !.pc = p, !.left = 0]
                   \in Client
      <4>1. [conn[c] EXCEPT !.page = kind, !.cmd = cmd, !.login = login] \in Client
        BY <1>0 DEF Client
      <4>2. [conn[c] EXCEPT !.page = kind, !.cmd = cmd, !.login = login, !.pc = p] \in Client
        BY <4>1 DEF Client
      <4> DEFINE k == [conn[c] EXCEPT !.page = kind, !.cmd = cmd, !.login = login, !.pc = p]
      <4>3. [k EXCEPT !.left = 0] \in Client
        <5>1. k \in Client
          BY <4>2
        <5> HIDE DEF k
        <5>2. QED
          BY <5>1 DEF Client
      <4>4. QED
        BY <4>3, Zenon
    <3>2. [conn[c] EXCEPT !.page = page.kind, !.cmd = page.cmd, !.login = page.login, !.pc = pc, !.left = 0]
            \in Client
      BY <2>2, <2>3, <3>1
    <3>3. QED
      BY <1>0, <2>4, <3>2
  <2>6. QED
    BY <1>5, <2>5, LocalTyped DEF Request
<1>6. QED
  BY <1>1, <1>2, <1>3, <1>4, <1>5 DEF Input

(* The types hold from the start on. *)
LEMMA TypesKept == Spec => []TypeOK
<1>1. Init => TypeOK
  <2>1. SUFFICES ASSUME Init PROVE TypeOK
    OBVIOUS
  <2>2. Nobody \in Client
    BY NobodyTyped
  <2>3. DataTyped
    BY <2>1 DEF Init, DataInit, DataTyped
  <2>4. TablesTyped
    BY <2>1, Constants DEF Init, TablesTyped
  <2>5. QED
    BY <2>1, <2>2, <2>3, <2>4 DEF Init, TypeOK
<1>2. TypeOK /\ [Next]_vars => TypeOK'
  <2>1. SUFFICES ASSUME TypeOK, [Next]_vars PROVE TypeOK'
    OBVIOUS
  <2>2. CASE UNCHANGED vars
    BY <2>1, <2>2 DEF vars, data, clients, TypeOK, DataTyped, TablesTyped
  <2>3. ASSUME NEW c \in Conns, Accept(c) PROVE TypeOK'
    BY <2>1, <2>3, AcceptTyped
  <2>4. ASSUME NEW c \in Conns, Refuse(c) PROVE TypeOK'
    <3>1. conn' \in [Conns -> Client]
      BY <2>1, <2>4, ClientTyped DEF Refuse, TypeOK
    <3>2. QED
      BY <2>1, <2>4, <3>1, LocalTyped DEF Refuse, same
  <2>5. ASSUME NEW c \in Conns, Step(c) PROVE TypeOK'
    BY <2>1, <2>5, StepTyped
  <2>6. ASSUME NEW c \in Conns, Input(c) PROVE TypeOK'
    BY <2>1, <2>6, InputTyped
  <2>7. ASSUME NEW c \in Conns, Stall(c) PROVE TypeOK'
    BY <2>1, <2>7 DEF Stall, TypeOK, DataTyped, TablesTyped, data, clients
  <2>8. CASE Signal \/ StopServing \/ Exit
    BY <2>1, <2>8 DEF Signal, StopServing, Exit, TypeOK, DataTyped, TablesTyped, data, clients
  <2>9. CASE CloseAll
    BY <2>1, <2>9 DEF CloseAll, TypeOK, DataTyped, TablesTyped, data
  <2>10. CASE Schedule
    BY <2>1, <2>10, SchedulerTyped DEF Schedule, TypeOK, TablesTyped, clients
  <2>11. QED
    BY <2>1, <2>2, <2>3, <2>4, <2>5, <2>6, <2>7, <2>8, <2>9, <2>10 DEF Next
<1>3. QED
  BY <1>1, <1>2, PTL DEF Spec

-----------------------------------------------------------------------------
(* The mutex, the flag and the recordings that are listed. *)

\* Those that run a command hold the mutex, and nobody else does; the flag is off when it is free.
Answering(c) == conn[c].pc \in {"raw", "answer"}
MutexInv ==
  /\ \A c \in Conns : Answering(c) <=> recs_mutex = c
  /\ recs_mutex = NoConn => ~htmlencode_flag
  /\ EncodedForBrowsers
  /\ \A c \in Conns : conn[c].pc = "raw" => conn[c].old = conn[c].web

\* A step of a thread that runs no command, before or after it.
Quiet(c) ==
  /\ UNCHANGED <<data, recs_mutex, htmlencode_flag>>
  /\ \A d \in Conns \ {c} : conn'[d] = conn[d]
  /\ ~Answering(c) /\ ~Answering(c)'

(* Such a step concerns neither the mutex nor what the others list. *)
LEMMA QuietKeeps ==
  ASSUME NEW c \in Conns, Quiet(c)
  PROVE  /\ MutexInv => MutexInv'
         /\ ListedAlive => ListedAlive'
<1>1. Allocated' = Allocated
  BY DEF Quiet, Allocated, data
<1>2. \A d \in Conns : d = c \/ conn'[d] = conn[d]
  BY DEF Quiet
<1>3. MutexInv => MutexInv'
  BY <1>2 DEF Quiet, MutexInv, Answering, EncodedForBrowsers
<1>4. ListedAlive => ListedAlive'
  BY <1>1, <1>2 DEF Quiet, ListedAlive, Answering
<1>5. QED
  BY <1>3, <1>4

(* A step changes the thread whose step it is. *)
LEMMA OneThread ==
  ASSUME TypeOK, NEW c \in Conns, Accept(c) \/ Refuse(c) \/ Step(c) \/ Input(c)
  PROVE  \A d \in Conns \ {c} : conn'[d] = conn[d]
<1>0. conn \in [Conns -> Client]
  BY DEF TypeOK
<1>1. Accept(c) \/ Refuse(c) => \A d \in Conns \ {c} : conn'[d] = conn[d]
  BY <1>0 DEF Accept, Refuse, Gone, Goto
<1>2. Start(c) \/ Leave(c) => \A d \in Conns \ {c} : conn'[d] = conn[d]
  BY <1>0 DEF Start, Leave, Gone
<1>3. Execute(c) => \A d \in Conns \ {c} : conn'[d] = conn[d]
  BY <1>0 DEF Execute, cmdinterp
<1>4. WriteRaw(c) \/ Answer(c) => \A d \in Conns \ {c} : conn'[d] = conn[d]
  BY <1>0 DEF WriteRaw, Answer
<1>5. AuthError(c) \/ Welcome(c) \/ NextRecordings(c) \/ RestOfPage(c)
        => \A d \in Conns \ {c} : conn'[d] = conn[d]
  BY <1>0 DEF AuthError, Welcome, NextRecordings, RestOfPage, Gone
<1>6. \A answer : Password(c, answer) => \A d \in Conns \ {c} : conn'[d] = conn[d]
  BY <1>0 DEF Password, Goto
<1>7. \A cmd, quit : Send(c, cmd) \/ EndOfInput(c, quit) \/ RequestTimeout(c)
        => \A d \in Conns \ {c} : conn'[d] = conn[d]
  BY <1>0 DEF Send, EndOfInput, RequestTimeout, Goto
<1>8. Request(c) => \A d \in Conns \ {c} : conn'[d] = conn[d]
  BY <1>0 DEF Request
<1>9. QED
  BY <1>1, <1>2, <1>3, <1>4, <1>5, <1>6, <1>7, <1>8 DEF Step, Input

(* All steps of clients are quiet but those of a command. *)
LEMMA MostAreQuiet ==
  ASSUME TypeOK, NEW c \in Conns, Accept(c) \/ Refuse(c) \/ Step(c) \/ Input(c),
         ~Execute(c), ~WriteRaw(c), ~Answer(c)
  PROVE  Quiet(c)
<1>0. conn \in [Conns -> Client] /\ conn[c] \in Client
  BY DEF TypeOK
<1>1. \A d \in Conns \ {c} : conn'[d] = conn[d]
  BY OneThread
<1>2. CASE Accept(c)
  <2>1. conn'[c].pc \in {"start", "hanging"} /\ conn[c].pc = "none"
    BY <1>2, AcceptStarts
  <2>2. QED
    BY <1>1, <1>2, <2>1 DEF Accept, Quiet, Answering
<1>3. CASE Refuse(c) \/ Leave(c) \/ AuthError(c)
  <2>1. conn'[c].pc = "gone" /\ conn[c].pc \in {"none", "leave", "autherror"}
    BY <1>0, <1>3 DEF Refuse, Leave, AuthError, Gone, Nobody, Client, At
  <2>2. QED
    BY <1>1, <1>3, <2>1 DEF Refuse, Leave, AuthError, Quiet, Answering
<1>4. CASE Start(c)
  <2>1. conn'[c].pc \in {"request", "password", "welcome"} /\ conn[c].pc = "start"
    BY <1>0, <1>4 DEF Start, Client, At
  <2>2. QED
    BY <1>1, <1>4, <2>1 DEF Start, Quiet, Answering
<1>5. CASE Welcome(c) \/ NextRecordings(c) \/ RestOfPage(c)
  <2>1. conn'[c].pc \in {"wait", "rest", "leave"} /\ conn[c].pc \in {"welcome", "next", "rest"}
    BY <1>0, <1>5 DEF Welcome, NextRecordings, RestOfPage, Client, At
  <2>2. QED
    BY <1>1, <1>5, <2>1 DEF Welcome, NextRecordings, RestOfPage, Quiet, Answering
<1>6. ASSUME NEW answer, Password(c, answer) PROVE Quiet(c)
  <2>1. conn'[c].pc \in {"welcome", "password", "autherror"} /\ conn[c].pc = "password"
    BY <1>0, <1>6 DEF Password, Goto, Client, At
  <2>2. QED
    BY <1>1, <1>6, <2>1 DEF Password, Quiet, Answering
<1>7. ASSUME NEW cmd, Send(c, cmd) PROVE Quiet(c)
  <2>1. conn'[c].pc = "lock" /\ conn[c].pc = "wait"
    BY <1>0, <1>7 DEF Send, Client, At
  <2>2. QED
    BY <1>1, <1>7, <2>1 DEF Send, Quiet, Answering
<1>8. ASSUME NEW quit, EndOfInput(c, quit) \/ RequestTimeout(c) PROVE Quiet(c)
  <2>1. conn'[c].pc = "leave" /\ conn[c].pc \in {"wait", "request"}
    BY <1>0, <1>8 DEF EndOfInput, RequestTimeout, Goto, Client, At
  <2>2. QED
    BY <1>1, <1>8, <2>1 DEF EndOfInput, RequestTimeout, Quiet, Answering
<1>9. CASE Request(c)
  <2>1. conn'[c].pc \in {"lock", "next", "leave"} /\ conn[c].pc = "request"
    BY <1>0, <1>9 DEF Request, Client, At
  <2>2. QED
    BY <1>1, <1>9, <2>1 DEF Request, Quiet, Answering
<1>10. QED
  BY <1>2, <1>3, <1>4, <1>5, <1>6, <1>7, <1>8, <1>9 DEF Step, Input

(* What the three steps of a command make of its thread. *)
LEMMA CommandSteps ==
  ASSUME TypeOK, NEW c \in Conns
  PROVE  /\ Execute(c) \/ WriteRaw(c) \/ Answer(c) =>
               conn'[c].slot = conn[c].slot /\ conn'[c].sock = conn[c].sock
         /\ Execute(c) => /\ conn[c].pc = "lock" /\ recs_mutex = NoConn /\ recs_mutex' = c
                          /\ conn'[c].pc = (IF Raw(conn[c].cmd) THEN "raw" ELSE "answer")
                          /\ conn'[c].web = conn[c].web /\ conn'[c].login = conn[c].login
                          /\ conn'[c].old = (conn[c].web \/ htmlencode_flag)
                          /\ htmlencode_flag' = ((conn[c].web \/ htmlencode_flag) /\ ~Raw(conn[c].cmd))
                          /\ Change(conn[c].cmd) /\ conn'[c].seen \in Collected(conn[c].cmd)
         /\ WriteRaw(c) => /\ conn[c].pc = "raw" /\ conn'[c].pc = "answer"
                           /\ conn'[c].web = conn[c].web /\ conn'[c].login = conn[c].login
                           /\ conn'[c].seen = {} /\ htmlencode_flag' = conn[c].old
                           /\ UNCHANGED <<data, recs_mutex>>
         /\ Answer(c) => /\ conn[c].pc = "answer" /\ conn'[c].pc \in {"wait", "next", "leave"}
                         /\ conn'[c].web = conn[c].web /\ (conn'[c].pc = "wait" => ~conn[c].web)
                         /\ htmlencode_flag' = (htmlencode_flag /\ ~conn[c].web)
                         /\ recs_mutex' = NoConn /\ UNCHANGED data
<1>0. conn \in [Conns -> Client] /\ conn[c] \in Client
  BY DEF TypeOK
<1>1. ASSUME Execute(c)
      PROVE  /\ conn[c].pc = "lock" /\ recs_mutex = NoConn /\ recs_mutex' = c
             /\ conn'[c].pc = (IF Raw(conn[c].cmd) THEN "raw" ELSE "answer")
             /\ conn'[c].web = conn[c].web /\ conn'[c].login = conn[c].login
             /\ conn'[c].old = (conn[c].web \/ htmlencode_flag)
             /\ htmlencode_flag' = ((conn[c].web \/ htmlencode_flag) /\ ~Raw(conn[c].cmd))
             /\ Change(conn[c].cmd) /\ conn'[c].seen \in Collected(conn[c].cmd)
             /\ conn'[c].slot = conn[c].slot /\ conn'[c].sock = conn[c].sock
  <2> DEFINE flag == conn[c].web \/ htmlencode_flag
             pc == IF Raw(conn[c].cmd) THEN "raw" ELSE "answer"
  <2>1. PICK S \in Collected(conn[c].cmd) :
          conn' = [conn EXCEPT ![c].pc = pc, ![c].cmd = NoCmd, ![c].seen = S, ![c].old = flag]
    BY <1>1 DEF Execute, cmdinterp
  <2> HIDE DEF flag, pc
  <2>2. /\ conn'[c].pc = pc /\ conn'[c].web = conn[c].web /\ conn'[c].login = conn[c].login
        /\ conn'[c].old = flag /\ conn'[c].seen = S
        /\ conn'[c].slot = conn[c].slot /\ conn'[c].sock = conn[c].sock
    BY <1>0, <2>1 DEF Client
  <2>3. QED
    BY <1>1, <2>2 DEF Execute, cmdinterp, At, flag, pc
<1>2. ASSUME WriteRaw(c)
      PROVE  /\ conn[c].pc = "raw" /\ conn'[c].pc = "answer"
             /\ conn'[c].web = conn[c].web /\ conn'[c].login = conn[c].login
             /\ conn'[c].seen = {} /\ htmlencode_flag' = conn[c].old
             /\ UNCHANGED <<data, recs_mutex>>
             /\ conn'[c].slot = conn[c].slot /\ conn'[c].sock = conn[c].sock
  BY <1>0, <1>2 DEF WriteRaw, Client, At
<1>3. ASSUME Answer(c)
      PROVE  /\ conn[c].pc = "answer" /\ conn'[c].pc \in {"wait", "next", "leave"}
             /\ conn'[c].web = conn[c].web /\ (conn'[c].pc = "wait" => ~conn[c].web)
             /\ htmlencode_flag' = (htmlencode_flag /\ ~conn[c].web)
             /\ recs_mutex' = NoConn /\ UNCHANGED data
             /\ conn'[c].slot = conn[c].slot /\ conn'[c].sock = conn[c].sock
  <2> DEFINE pc == CASE ~conn[c].web -> "wait"
                     [] conn[c].page = "main" -> "next"
                     [] OTHER -> "leave"
  <2>1. conn' = [conn EXCEPT ![c].pc = pc, ![c].seen = {}, ![c].old = FALSE, ![c].login = FALSE]
    BY <1>3 DEF Answer
  <2>2. pc \in {"wait", "next", "leave"} /\ (pc = "wait" => ~conn[c].web)
    OBVIOUS
  <2> HIDE DEF pc
  <2>3. /\ conn'[c].pc = pc /\ conn'[c].web = conn[c].web
        /\ conn'[c].slot = conn[c].slot /\ conn'[c].sock = conn[c].sock
    BY <1>0, <2>1 DEF Client
  <2>4. QED
    BY <1>3, <2>2, <2>3 DEF Answer, At
<1>4. QED
  BY <1>1, <1>2, <1>3

(* Commands keep the mutex to themselves, and the flag as the one that holds it wants it. *)
LEMMA MutexKept == Spec => []MutexInv
<1>1. Init => MutexInv
  BY Constants DEF Init, Nobody, MutexInv, Answering, EncodedForBrowsers
<1>2. TypeOK /\ MutexInv /\ [Next]_vars => MutexInv'
  <2>1. SUFFICES ASSUME TypeOK, MutexInv, [Next]_vars PROVE MutexInv'
    OBVIOUS
  <2>2. UNCHANGED <<conn, recs_mutex, htmlencode_flag>> => MutexInv'
    BY <2>1 DEF MutexInv, Answering, EncodedForBrowsers
  <2>3. ASSUME NEW c \in Conns, Accept(c) \/ Refuse(c) \/ Step(c) \/ Input(c)
        PROVE  MutexInv'
    <3>0. conn[c] \in Client /\ htmlencode_flag \in BOOLEAN /\ c # NoConn
      BY <2>1, Constants DEF TypeOK
    <3>1. \A d \in Conns : d = c \/ conn'[d] = conn[d]
      BY <2>1, <2>3, OneThread
    <3>2. CASE Execute(c)
      <4>1. /\ recs_mutex = NoConn /\ recs_mutex' = c
            /\ conn'[c].pc = (IF Raw(conn[c].cmd) THEN "raw" ELSE "answer")
            /\ conn'[c].web = conn[c].web
            /\ conn'[c].old = (conn[c].web \/ htmlencode_flag)
            /\ htmlencode_flag' = ((conn[c].web \/ htmlencode_flag) /\ ~Raw(conn[c].cmd))
        BY <2>1, <3>2, CommandSteps
      <4>2. \A d \in Conns : ~Answering(d)
        BY <2>1, <4>1, Constants DEF MutexInv
      <4>3. ~htmlencode_flag
        BY <2>1, <4>1 DEF MutexInv
      <4>4. conn[c].web \in BOOLEAN
        BY <3>0 DEF Client
      <4>5. \A d \in Conns : Answering(d)' <=> recs_mutex' = d
        BY <3>1, <4>1, <4>2 DEF Answering
      <4>6. (conn'[c].pc = "raw" => ~htmlencode_flag' /\ conn'[c].old = conn'[c].web)
            /\ (conn'[c].pc = "answer" => htmlencode_flag' = conn'[c].web)
        BY <4>1, <4>3, <4>4
      <4>7. QED
        BY <3>0, <3>1, <4>1, <4>2, <4>5, <4>6 DEF MutexInv, EncodedForBrowsers, Answering
    <3>3. CASE WriteRaw(c)
      <4>1. /\ conn[c].pc = "raw" /\ conn'[c].pc = "answer" /\ conn'[c].web = conn[c].web
            /\ htmlencode_flag' = conn[c].old /\ recs_mutex' = recs_mutex
        BY <2>1, <3>3, CommandSteps
      <4>2. recs_mutex = c /\ conn[c].old = conn[c].web
        BY <2>1, <4>1 DEF MutexInv, Answering
      <4>3. QED
        BY <2>1, <3>0, <3>1, <4>1, <4>2 DEF MutexInv, EncodedForBrowsers, Answering
    <3>4. CASE Answer(c)
      <4>1. /\ conn[c].pc = "answer" /\ conn'[c].pc \in {"wait", "next", "leave"}
            /\ htmlencode_flag' = (htmlencode_flag /\ ~conn[c].web) /\ recs_mutex' = NoConn
        BY <2>1, <3>4, CommandSteps
      <4>2. recs_mutex = c /\ htmlencode_flag = conn[c].web
        BY <2>1, <4>1 DEF MutexInv, Answering, EncodedForBrowsers
      <4>3. ~htmlencode_flag'
        BY <4>1, <4>2
      <4>4. \A d \in Conns : ~Answering(d)'
        BY <2>1, <3>1, <4>1, <4>2 DEF MutexInv, Answering
      <4>5. QED
        BY <4>1, <4>3, <4>4, Constants DEF MutexInv, EncodedForBrowsers, Answering
    <3>5. QED
      BY <2>1, <2>3, <3>2, <3>3, <3>4, MostAreQuiet, QuietKeeps
  <2>4. ASSUME NEW c \in Conns, Stall(c) PROVE MutexInv'
    BY <2>2, <2>4 DEF Stall
  <2>5. CASE Signal \/ StopServing \/ Exit \/ CloseAll \/ Schedule
    BY <2>2, <2>5 DEF Signal, StopServing, Exit, CloseAll, Schedule
  <2>6. CASE UNCHANGED vars
    BY <2>2, <2>6 DEF vars
  <2>7. QED
    BY <2>1, <2>3, <2>4, <2>5, <2>6 DEF Next
<1>3. QED
  BY <1>1, <1>2, TypesKept, PTL DEF Spec

(* What a command prints is encoded as HTML if it goes to a browser, and not if it goes to a *)
(* terminal; the XML of the recordings never is (html_cmd_output, _writeXMLFile). *)
THEOREM AnswersAreEncoded == Spec => []EncodedForBrowsers
<1>1. MutexInv => EncodedForBrowsers
  BY DEF MutexInv
<1>2. QED
  BY <1>1, MutexKept, PTL

(* No command writes of a recording that has been freed since it collected it: nothing but a command *)
(* or the scheduler changes the recordings, and both need the mutex (list_recs, dump_record). *)
THEOREM ListedAreAlive == Spec => []ListedAlive
<1>1. Init => ListedAlive
  BY DEF Init, Nobody, ListedAlive
<1>2. TypeOK /\ MutexInv /\ ListedAlive /\ [Next]_vars => ListedAlive'
  <2>1. SUFFICES ASSUME TypeOK, MutexInv, ListedAlive, [Next]_vars PROVE ListedAlive'
    OBVIOUS
  <2>2. UNCHANGED <<data, conn>> => ListedAlive'
    BY <2>1 DEF ListedAlive, Allocated, data
  <2>3. ASSUME NEW c \in Conns, Accept(c) \/ Refuse(c) \/ Step(c) \/ Input(c)
        PROVE  ListedAlive'
    <3>1. \A d \in Conns : d = c \/ conn'[d] = conn[d]
      BY <2>1, <2>3, OneThread
    <3>2. CASE Execute(c)
      <4>1. recs_mutex = NoConn /\ Change(conn[c].cmd) /\ conn'[c].seen \in Collected(conn[c].cmd)
        BY <2>1, <3>2, CommandSteps
      <4>2. \A d \in Conns : conn[d].pc \notin {"raw", "answer"}
        BY <2>1, <4>1, Constants DEF MutexInv, Answering
      <4>3. conn'[c].seen \subseteq Allocated'
        BY <2>1, <4>1, CollectedAlive DEF TypeOK
      <4>4. QED
        BY <3>1, <4>2, <4>3 DEF ListedAlive
    <3>3. CASE WriteRaw(c) \/ Answer(c)
      <4>1. Allocated' = Allocated /\ (conn'[c].seen = {} \/ conn'[c].pc \notin {"raw", "answer"})
        BY <2>1, <3>3, CommandSteps DEF Allocated, data
      <4>2. QED
        BY <2>1, <3>1, <4>1 DEF ListedAlive
    <3>4. QED
      BY <2>1, <2>3, <3>2, <3>3, MostAreQuiet, QuietKeeps
  <2>4. ASSUME NEW c \in Conns, Stall(c) PROVE ListedAlive'
    BY <2>2, <2>4 DEF Stall
  <2>5. CASE Signal \/ StopServing \/ Exit \/ CloseAll
    BY <2>2, <2>5 DEF Signal, StopServing, Exit, CloseAll
  <2>6. CASE Schedule
    <3>1. recs_mutex = NoConn /\ conn' = conn
      BY <2>6 DEF Schedule
    <3>2. \A d \in Conns : conn[d].pc \notin {"raw", "answer"}
      BY <2>1, <3>1, Constants DEF MutexInv, Answering
    <3>3. QED
      BY <3>1, <3>2 DEF ListedAlive
  <2>7. CASE UNCHANGED vars
    BY <2>2, <2>7 DEF vars
  <2>8. QED
    BY <2>1, <2>3, <2>4, <2>5, <2>6, <2>7 DEF Next
<1>3. QED
  BY <1>1, <1>2, TypesKept, MutexKept, PTL DEF Spec

-----------------------------------------------------------------------------
(* The login. *)

(* A page with a command is served with a login only, if one is required. *)
LEMMA PagesNeedLogin ==
  \A page \in PagesServed : page.cmd # NoCmd => page.login \/ ~require_web_password
<1>1. \A headers : Main(headers, NoCmd).cmd = NoCmd
  BY DEF Main, Page
<1>2. LoginPage.cmd = NoCmd /\ StaticFile.cmd = NoCmd
  BY DEF LoginPage, StaticFile, Page
<1>3. ASSUME NEW r \in Requests, web_process_httprequest(r).cmd # NoCmd
      PROVE  HasLogin(r) \/ ~require_web_password
  <2>1. r.get # NoGet /\ web_exec_httpget(r.headers, r.get).cmd # NoCmd
    BY <1>1, <1>3 DEF web_process_httprequest
  <2>2. CASE web_validate_login(r.headers)
    BY <2>2 DEF web_validate_login, validate_cookie, HasLogin
  <2>3. CASE ~web_validate_login(r.headers) /\ require_web_password
    <3>1. r.get.file = "login" /\ _web_cmd_login(r.headers, r.get).cmd # NoCmd
      BY <1>2, <2>1, <2>3 DEF web_exec_httpget
    <3>2. validate_login(r.get.user)
      BY <1>2, <2>3, <3>1 DEF _web_cmd_login
    <3>3. QED
      BY <2>1, <3>1, <3>2 DEF validate_login, HasLogin
  <2>4. QED
    BY <2>2, <2>3
<1>4. TAKE page \in PagesServed
<1>5. PICK r \in Requests :
        page = [kind |-> web_process_httprequest(r).kind, cmd |-> web_process_httprequest(r).cmd,
                login |-> web_process_httprequest(r).cmd # NoCmd /\ HasLogin(r)]
  BY DEF PagesServed
<1>6. page.cmd = web_process_httprequest(r).cmd
      /\ page.login = (web_process_httprequest(r).cmd # NoCmd /\ HasLogin(r))
  BY <1>5
<1>7. QED
  BY <1>3, <1>6

\* Where a browser has its login checked; terminals have a loop of their own.
LoginInv ==
  \A c \in Conns :
    /\ conn[c].web /\ conn[c].pc \in {"lock", "raw", "answer"} => conn[c].login \/ ~require_web_password
    /\ conn[c].pc \in {"password", "welcome", "wait"} => ~conn[c].web

(* The command of a browser runs only if its request came with a login, whatever its path. *)
THEOREM BrowsersLogIn == Spec => []CommandsNeedLogin
<1>1. Init => LoginInv
  BY DEF Init, Nobody, LoginInv
<1>2. TypeOK /\ LoginInv /\ [Next]_vars => LoginInv'
  <2>1. SUFFICES ASSUME TypeOK, LoginInv, [Next]_vars PROVE LoginInv'
    OBVIOUS
  <2>2. UNCHANGED conn => LoginInv'
    BY <2>1 DEF LoginInv
  <2> DEFINE LoggedIn(c) ==
        /\ conn[c].web /\ conn[c].pc \in {"lock", "raw", "answer"} => conn[c].login \/ ~require_web_password
        /\ conn[c].pc \in {"password", "welcome", "wait"} => ~conn[c].web
  <2>3. ASSUME NEW c \in Conns, Accept(c) \/ Refuse(c) \/ Step(c) \/ Input(c)
        PROVE  LoginInv'
    <3>0. conn \in [Conns -> Client] /\ conn[c] \in Client /\ LoggedIn(c)
      BY <2>1 DEF TypeOK, LoginInv
    <3>1. \A d \in Conns : d = c \/ conn'[d] = conn[d]
      BY <2>1, <2>3, OneThread
    <3>2. LoggedIn(c)' => LoginInv'
      BY <2>1, <3>1 DEF LoginInv
    <3>3. Accept(c) => LoggedIn(c)'
      BY <2>1, AcceptStarts
    <3>4. Refuse(c) \/ Leave(c) \/ AuthError(c) => LoggedIn(c)'
      BY <3>0 DEF Refuse, Leave, AuthError, Gone, Nobody
    <3>5. Start(c) => LoggedIn(c)'
      BY <2>1, <3>0, ThreadStarts
    <3>6. Execute(c) \/ WriteRaw(c) \/ Answer(c) => LoggedIn(c)'
      BY <2>1, <3>0, CommandSteps
    <3>7. Welcome(c) \/ NextRecordings(c) \/ RestOfPage(c) => LoggedIn(c)'
      BY <3>0 DEF Welcome, NextRecordings, RestOfPage, Client, At
    <3>8. \A answer : Password(c, answer) => LoggedIn(c)'
      BY <3>0 DEF Password, Goto, Client, At
    <3>9. \A cmd, quit : Send(c, cmd) \/ EndOfInput(c, quit) \/ RequestTimeout(c) => LoggedIn(c)'
      BY <3>0 DEF Send, EndOfInput, RequestTimeout, Goto, Client, At
    <3>10. ASSUME Request(c) PROVE LoggedIn(c)'
      <4>1. PICK page \in PagesServed :
              conn' = [conn EXCEPT ![c].page = page.kind, ![c].cmd = page.cmd, ![c].login = page.login,
                                   ![c].pc = CASE page.cmd # NoCmd -> "lock"
                                               [] page.cmd = NoCmd /\ page.kind = "main" -> "next"
                                               [] OTHER -> "leave",
                                   ![c].left = 0]
        BY <3>10 DEF Request
      <4>2. /\ conn'[c].login = page.login
            /\ (conn'[c].pc = "lock" /\ page.cmd # NoCmd) \/ conn'[c].pc \in {"next", "leave"}
        BY <3>0, <4>1 DEF Client
      <4>3. QED
        BY <4>2, PagesNeedLogin
    <3>11. QED
      BY <2>3, <3>2, <3>3, <3>4, <3>5, <3>6, <3>7, <3>8, <3>9, <3>10 DEF Step, Input
  <2>4. ASSUME NEW c \in Conns, Stall(c) PROVE LoginInv'
    BY <2>2, <2>4 DEF Stall
  <2>5. CASE Signal \/ StopServing \/ Exit \/ CloseAll \/ Schedule
    BY <2>2, <2>5 DEF Signal, StopServing, Exit, CloseAll, Schedule
  <2>6. CASE UNCHANGED vars
    BY <2>2, <2>6 DEF vars
  <2>7. QED
    BY <2>1, <2>3, <2>4, <2>5, <2>6 DEF Next
<1>3. LoginInv => CommandsNeedLogin
  BY DEF LoginInv, CommandsNeedLogin
<1>4. QED
  BY <1>1, <1>2, <1>3, TypesKept, PTL DEF Spec

-----------------------------------------------------------------------------
(* The slots. *)

\* A thread's slot is taken, and has its socket, which is open to its client until main closes it.
Holds(c) ==
  LET s == client_socket[conn[c].slot]
  IN  /\ conn[c].slot \in cli_threads
      /\ s # 0
      /\ fd[s] = c \/ main \in {"waiting", "ended"}
      /\ conn[c].pc # "start" => s = conn[c].sock

\* No two slots have the same socket, and as long as clients are let in none has a closed one.
SocketInv ==
  /\ \A i, j \in Slots : i # j /\ client_socket[i] = client_socket[j] => client_socket[i] = 0
  /\ main \in {"serve", "closing"} =>
       \A i \in Slots : client_socket[i] # 0 => fd[client_socket[i]] # NoConn

HolderInv ==
  /\ \A c \in Threads : Holds(c)
  /\ \A c, d \in Threads : c # d => conn[c].slot # conn[d].slot

CountInv ==
  /\ IsFiniteSet(Threads) /\ ncli_threads = Cardinality(Threads)
  /\ Cardinality(cli_threads) <= Cardinality(Threads) + faults

SlotInv == SocketInv /\ HolderInv /\ CountInv

(* A step that leaves the tables as they are, and each thread its slot and its socket. *)
LEMMA TablesKept ==
  ASSUME SlotInv, UNCHANGED <<clients, faults>>, Threads' = Threads,
         main' \in {"serve", "closing"} => main \in {"serve", "closing"},
         main \in {"waiting", "ended"} => main' \in {"waiting", "ended"},
         \A c \in Threads : /\ conn'[c].slot = conn[c].slot
                            /\ conn'[c].pc # "start" => conn'[c].sock = client_socket[conn[c].slot]
  PROVE  SlotInv'
<1>1. SocketInv'
  BY DEF SlotInv, SocketInv, clients
<1>2. HolderInv'
  BY DEF SlotInv, HolderInv, Holds, clients
<1>3. CountInv'
  BY DEF SlotInv, CountInv, clients
<1>4. QED
  BY <1>1, <1>2, <1>3 DEF SlotInv

(* A new client gets a slot nobody has, with a socket nobody has; a failed one leaves its socket open. *)
LEMMA AcceptKeepsSlots ==
  ASSUME TypeOK, SlotInv, NEW c \in Conns, Accept(c)
  PROVE  SlotInv'
<1> DEFINE i == Min(FreeSlots)
           s == NewSocket
<1>1. /\ i \in Slots \ cli_threads /\ s \in Sockets /\ fd[s] = NoConn
      /\ c # NoConn /\ s # 0
  BY AcceptTakesFree, Constants
<1>2. /\ client_socket' = [client_socket EXCEPT ![i] = s] /\ fd' = [fd EXCEPT ![s] = c]
      /\ main = "serve" /\ main' = main
  BY DEF Accept
<1> HIDE DEF i, s
<1>3. client_socket \in [Slots -> Sockets \cup {0}] /\ fd \in [Sockets -> Conns \cup {NoConn}]
      /\ cli_threads \subseteq Slots
  BY DEF TypeOK, TablesTyped
<1>4. \A j \in Slots : client_socket[j] # s
  BY <1>1, <1>2, <1>3 DEF SlotInv, SocketInv
<1>5. SocketInv'
  <2>1. \A j \in Slots : client_socket'[j] = IF j = i THEN s ELSE client_socket[j]
    BY <1>1, <1>2, <1>3
  <2>2. \A t \in Sockets : fd'[t] = IF t = s THEN c ELSE fd[t]
    BY <1>1, <1>2, <1>3
  <2>3. \A j, k \in Slots : j # k /\ client_socket'[j] = client_socket'[k] => client_socket'[j] = 0
    BY <1>4, <2>1 DEF SlotInv, SocketInv
  <2>4. \A j \in Slots : client_socket'[j] # 0 => fd'[client_socket'[j]] # NoConn
    BY <1>1, <1>2, <1>3, <1>4, <2>1, <2>2 DEF SlotInv, SocketInv
  <2>5. QED
    BY <2>3, <2>4 DEF SocketInv
<1>6. \A d \in Conns : d = c \/ conn'[d] = conn[d]
  BY OneThread
<1>7. \A d \in Threads : d # c /\ Holds(d)' /\ conn'[d].slot = conn[d].slot /\ conn[d].slot # i
  <2>1. TAKE d \in Threads
  <2>2. d # c
    BY AcceptStarts DEF Threads
  <2>3. Holds(d) /\ conn'[d] = conn[d]
    BY <1>6, <2>2 DEF SlotInv, HolderInv, Threads
  <2>4. conn[d].slot \in cli_threads /\ conn[d].slot # i /\ conn[d].slot \in Slots
    BY <1>1, <1>3, <2>3 DEF Holds
  <2>5. client_socket'[conn[d].slot] = client_socket[conn[d].slot]
        /\ client_socket[conn[d].slot] \in Sockets /\ client_socket[conn[d].slot] # s
    BY <1>2, <1>3, <1>4, <2>3, <2>4 DEF Holds
  <2>6. fd'[client_socket[conn[d].slot]] = fd[client_socket[conn[d].slot]]
    BY <1>2, <1>3, <2>5
  <2>7. cli_threads \subseteq cli_threads'
    BY DEF Accept
  <2>8. Holds(d)'
    BY <1>2, <2>3, <2>4, <2>5, <2>6, <2>7 DEF Holds
  <2>9. QED
    BY <2>2, <2>3, <2>4, <2>8
<1>8. IsFiniteSet(cli_threads)
  <2>1. IsFiniteSet(Slots)
    BY Constants, FS_Interval DEF Slots
  <2>2. QED
    BY <1>3, <2>1, FS_Subset
<1>9. IsFiniteSet(cli_threads \cup {i})
      /\ Cardinality(cli_threads \cup {i}) = Cardinality(cli_threads) + 1
      /\ Cardinality(cli_threads) \in Nat
  BY <1>1, <1>8, FS_AddElement, FS_CardinalityType
<1>10. faults \in Nat /\ Cardinality(Threads) \in Nat
  BY FS_CardinalityType DEF TypeOK, TablesTyped, SlotInv, CountInv
<1>11. CASE conn'[c].pc = "start"
  <2>1. Threads' = Threads \cup {c} /\ c \notin Threads
    BY <1>6, <1>11, AcceptStarts DEF Threads
  <2>2. /\ conn'[c].slot = i /\ cli_threads' = cli_threads \cup {i} /\ ncli_threads' = ncli_threads + 1
        /\ faults' = faults
    <3>1. conn \in [Conns -> Client] /\ conn[c] \in Client
      BY DEF TypeOK
    <3>2. ~Goto(c, "hanging")
      BY <1>11, <3>1 DEF Goto, Client
    <3>3. QED
      BY <1>11, <3>2, AcceptStarts DEF Accept, i
  <2>3. Holds(c)'
    BY <1>1, <1>2, <1>3, <1>11, <2>2 DEF Holds
  <2>4. HolderInv'
    BY <1>7, <2>1, <2>2, <2>3 DEF SlotInv, HolderInv
  <2>5. IsFiniteSet(Threads') /\ Cardinality(Threads') = Cardinality(Threads) + 1
    BY <2>1, FS_AddElement DEF SlotInv, CountInv
  <2>6. CountInv'
    BY <1>9, <1>10, <2>2, <2>5 DEF SlotInv, CountInv
  <2>7. QED
    BY <1>5, <2>4, <2>6 DEF SlotInv
<1>12. CASE conn'[c].pc # "start"
  <2>1. conn'[c].pc = "hanging"
    BY <1>12, AcceptStarts
  <2>2. Threads' = Threads
    BY <1>6, <1>7, <2>1 DEF Threads
  <2>3. /\ cli_threads' = cli_threads \/ cli_threads' = cli_threads \cup {i}
        /\ ncli_threads' = ncli_threads /\ faults' = faults + 1
    <3>1. conn \in [Conns -> Client]
      BY DEF TypeOK
    <3>2. conn' # [conn EXCEPT ![c] = [Nobody EXCEPT !.pc = "start", !.web = (c \in Browsers), !.slot = i]]
      <4> DEFINE web == c \in Browsers
      <4>1. [Nobody EXCEPT !.pc = "start", !.web = web, !.slot = i].pc = "start"
        BY DEF Nobody
      <4>2. QED
        BY <3>1, <1>12, <4>1
    <3>3. QED
      BY <3>2 DEF Accept, i
  <2>4. HolderInv'
    BY <1>7, <2>2 DEF SlotInv, HolderInv
  <2>5. CountInv'
    <3>1. Cardinality(cli_threads') <= Cardinality(cli_threads) + 1 /\ Cardinality(cli_threads') \in Nat
      <4>1. CASE cli_threads' = cli_threads
        BY <1>9, <4>1
      <4>2. CASE cli_threads' = cli_threads \cup {i}
        <5>1. Cardinality(cli_threads') = Cardinality(cli_threads \cup {i})
          BY <4>2
        <5>2. QED
          BY <1>9, <5>1
      <4>3. QED
        BY <2>3, <4>1, <4>2
    <3>2. Cardinality(cli_threads) <= Cardinality(Threads) + faults
      BY DEF SlotInv, CountInv
    <3>3. Cardinality(cli_threads') <= Cardinality(Threads) + (faults + 1)
      BY <1>9, <1>10, <3>1, <3>2
    <3>4. QED
      BY <2>2, <2>3, <3>3 DEF SlotInv, CountInv
  <2>6. QED
    BY <1>5, <2>4, <2>5 DEF SlotInv
<1>13. QED
  BY <1>11, <1>12

(* A thread that leaves frees its own slot and closes its own socket. *)
LEMMA FreedKeepsSlots ==
  ASSUME TypeOK, SlotInv, NEW c \in Threads, Freed(c), conn[c].pc # "start", c \notin Threads',
         \A d \in Conns \ {c} : conn'[d] = conn[d], UNCHANGED <<main, faults>>
  PROVE  SlotInv'
<1> DEFINE i == conn[c].slot
           s == conn[c].sock
<1>1. i \in cli_threads /\ s = client_socket[i] /\ s # 0 /\ i \in Slots /\ s \in Sockets
  BY DEF SlotInv, HolderInv, Holds, TypeOK, TablesTyped
<1>2. /\ client_socket' = [client_socket EXCEPT ![i] = 0] /\ fd' = [fd EXCEPT ![s] = NoConn]
      /\ cli_threads' = cli_threads \ {i} /\ ncli_threads' = ncli_threads - 1
  BY DEF Freed
<1>3. client_socket \in [Slots -> Sockets \cup {0}] /\ fd \in [Sockets -> Conns \cup {NoConn}]
      /\ cli_threads \subseteq Slots /\ faults \in Nat
  BY DEF TypeOK, TablesTyped
<1>4. Threads' = Threads \ {c}
  BY DEF Threads
<1>5. \A d \in Threads \ {c} : Holds(d) /\ conn[d].slot # i /\ conn'[d] = conn[d]
  BY DEF SlotInv, HolderInv, Threads
<1> HIDE DEF i, s
<1>6. \A j \in Slots \ {i} : client_socket[j] # s
  BY <1>1, <1>3 DEF SlotInv, SocketInv
<1>7. SocketInv'
  <2>1. \A j \in Slots : client_socket'[j] = IF j = i THEN 0 ELSE client_socket[j]
    BY <1>1, <1>2, <1>3
  <2>2. \A t \in Sockets : t # s => fd'[t] = fd[t]
    BY <1>1, <1>2, <1>3
  <2>3. \A j, k \in Slots : j # k /\ client_socket'[j] = client_socket'[k] => client_socket'[j] = 0
    BY <2>1 DEF SlotInv, SocketInv
  <2>4. main' \in {"serve", "closing"} =>
          \A j \in Slots : client_socket'[j] # 0 => fd'[client_socket'[j]] # NoConn
    BY <1>3, <1>6, <2>1, <2>2 DEF SlotInv, SocketInv
  <2>5. QED
    BY <2>3, <2>4 DEF SocketInv
<1>8. \A d \in Threads' : Holds(d)'
  <2>1. TAKE d \in Threads'
  <2>2. d \in Threads \ {c} /\ Holds(d) /\ conn[d].slot # i /\ conn'[d] = conn[d]
    BY <1>4, <1>5
  <2>3. conn[d].slot \in cli_threads \ {i} /\ conn[d].slot \in Slots
    BY <1>3, <2>2 DEF Holds
  <2>4. client_socket'[conn[d].slot] = client_socket[conn[d].slot]
        /\ client_socket[conn[d].slot] \in Sockets /\ client_socket[conn[d].slot] # s
    BY <1>2, <1>3, <1>6, <2>2, <2>3 DEF Holds
  <2>5. fd'[client_socket[conn[d].slot]] = fd[client_socket[conn[d].slot]]
    BY <1>2, <1>3, <2>4
  <2>6. QED
    BY <1>2, <2>2, <2>3, <2>4, <2>5 DEF Holds
<1>9. HolderInv'
  BY <1>4, <1>5, <1>8 DEF SlotInv, HolderInv
<1>10. CountInv'
  <2>1. IsFiniteSet(cli_threads)
    <3>1. IsFiniteSet(Slots)
      BY Constants, FS_Interval DEF Slots
    <3>2. QED
      BY <1>3, <3>1, FS_Subset
  <2>2. IsFiniteSet(Threads) /\ c \in Threads /\ ncli_threads = Cardinality(Threads)
        /\ Cardinality(cli_threads) <= Cardinality(Threads) + faults
    BY DEF SlotInv, CountInv
  <2>3. IsFiniteSet(Threads') /\ Cardinality(Threads') = Cardinality(Threads) - 1
    BY <1>4, <2>2, FS_RemoveElement
  <2>4. Cardinality(cli_threads') = Cardinality(cli_threads) - 1
    BY <1>1, <1>2, <2>1, FS_RemoveElement
  <2>5. Cardinality(cli_threads) \in Nat /\ Cardinality(Threads) \in Nat
    BY <2>1, <2>2, FS_CardinalityType
  <2>6. Cardinality(cli_threads') <= Cardinality(Threads') + faults
    BY <1>3, <2>2, <2>3, <2>4, <2>5
  <2>7. ncli_threads' = Cardinality(Threads')
    BY <1>2, <2>2, <2>3
  <2>8. QED
    BY <2>3, <2>6, <2>7 DEF CountInv
<1>11. QED
  BY <1>7, <1>9, <1>10 DEF SlotInv

(* Other steps of a thread keep its slot and its socket: what it starts with is what the first slot *)
(* with its socket says, which is its own. *)
LEMMA SlotOfThreadKept ==
  ASSUME TypeOK, SlotInv, NEW c \in Conns, Step(c) \/ Input(c), UNCHANGED clients
  PROVE  /\ c \in Threads' <=> c \in Threads
         /\ c \in Threads => conn'[c].slot = conn[c].slot
         /\ c \in Threads /\ conn'[c].pc # "start" => conn'[c].sock = client_socket[conn[c].slot]
<1> DEFINE Kept == /\ c \in Threads' <=> c \in Threads
                   /\ c \in Threads => conn'[c].slot = conn[c].slot
                   /\ c \in Threads /\ conn'[c].pc # "start" =>
                         conn'[c].sock = client_socket[conn[c].slot]
<1>0. conn \in [Conns -> Client] /\ conn[c] \in Client
  BY DEF TypeOK
<1>1. c \in Threads => Holds(c)
  BY DEF SlotInv, HolderInv
<1>2. ASSUME conn'[c].slot = conn[c].slot, conn'[c].sock = conn[c].sock, conn[c].pc # "start",
             c \in Threads' <=> c \in Threads
      PROVE  Kept
  BY <1>1, <1>2 DEF Holds
<1>3. CASE Start(c)
  <2> DEFINE s == client_socket[conn[c].slot]
             i == Min({j \in Slots : client_socket[j] = s})
  <2>1. /\ conn[c].pc = "start" /\ conn'[c].pc \in {"request", "password", "welcome"}
        /\ conn'[c].sock = s /\ conn'[c].slot = i
    BY <1>3, ThreadStarts
  <2>2. c \in Threads /\ c \in Threads'
    BY <2>1 DEF Threads
  <2>3. i \in Slots /\ client_socket[i] = s /\ conn[c].slot \in Slots /\ s # 0
    BY <1>0, <1>1, <2>2, StartFindsSlot DEF Client, Holds
  <2>4. i = conn[c].slot
    BY <2>3 DEF SlotInv, SocketInv
  <2>5. QED
    BY <2>1, <2>2, <2>4
<1>4. CASE Execute(c) \/ WriteRaw(c) \/ Answer(c)
  <2>1. conn'[c].slot = conn[c].slot /\ conn'[c].sock = conn[c].sock
    BY <1>4, CommandSteps
  <2>2. conn[c].pc \in {"lock", "raw", "answer"} /\ conn'[c].pc \in {"raw", "answer", "wait", "next", "leave"}
    BY <1>4, CommandSteps
  <2>3. QED
    BY <1>2, <2>1, <2>2 DEF Threads
<1>5. CASE Welcome(c) \/ NextRecordings(c) \/ RestOfPage(c)
  <2>1. /\ conn'[c].slot = conn[c].slot /\ conn'[c].sock = conn[c].sock
        /\ conn[c].pc \in {"welcome", "next", "rest"} /\ conn'[c].pc \in {"wait", "rest", "leave"}
    BY <1>0, <1>5 DEF Welcome, NextRecordings, RestOfPage, Client, At
  <2>2. QED
    BY <1>2, <2>1 DEF Threads
<1>6. CASE AuthError(c)
  BY <1>0, <1>6 DEF AuthError, Gone, Nobody, At, Threads
<1>7. ASSUME Leave(c) \/ \E answer : Password(c, answer) /\ Freed(c)
      PROVE  FALSE
  <2>1. c \in Threads
    BY <1>7 DEF Leave, Password, At, Threads
  <2>2. conn[c].slot \in cli_threads /\ cli_threads' = cli_threads \ {conn[c].slot}
    BY <1>1, <1>7, <2>1 DEF Holds, Leave, Freed
  <2>3. QED
    BY <2>2 DEF clients
<1>8. ASSUME NEW answer, Password(c, answer)
      PROVE  Kept
  <2>1. ~Freed(c)
    BY <1>7, <1>8
  <2>2. /\ conn'[c].slot = conn[c].slot /\ conn'[c].sock = conn[c].sock
        /\ conn[c].pc = "password" /\ conn'[c].pc \in {"welcome", "password"}
    BY <1>0, <1>8, <2>1 DEF Password, Goto, Client, At
  <2>3. QED
    BY <1>2, <2>2 DEF Threads
<1>9. ASSUME NEW cmd, NEW quit, Send(c, cmd) \/ EndOfInput(c, quit) \/ RequestTimeout(c)
      PROVE  Kept
  <2>1. /\ conn'[c].slot = conn[c].slot /\ conn'[c].sock = conn[c].sock
        /\ conn[c].pc \in {"wait", "request"} /\ conn'[c].pc \in {"lock", "leave"}
    BY <1>0, <1>9 DEF Send, EndOfInput, RequestTimeout, Goto, Client, At
  <2>2. QED
    BY <1>2, <2>1 DEF Threads
<1>10. CASE Request(c)
  <2>1. /\ conn'[c].slot = conn[c].slot /\ conn'[c].sock = conn[c].sock
        /\ conn[c].pc = "request" /\ conn'[c].pc \in {"lock", "next", "leave"}
    BY <1>0, <1>10 DEF Request, Client, At
  <2>2. QED
    BY <1>2, <2>1 DEF Threads
<1>11. QED
  BY <1>3, <1>4, <1>5, <1>6, <1>7, <1>8, <1>9, <1>10 DEF Step, Input

(* Each thread has a slot and a socket of its own, open to its client until main closes it; no other *)
(* slot counts as taken but one that a failed pthread_create left (startupsrv, the ends of clientsrv *)
(* and webclientsrv). *)
THEOREM SlotsAreHeld == Spec => []SlotsMatch
<1>1. Init => SlotInv
  <2>1. SUFFICES ASSUME Init PROVE SlotInv
    OBVIOUS
  <2>2. Threads = {} /\ cli_threads = {} /\ ncli_threads = 0 /\ faults = 0
    BY <2>1 DEF Init, Nobody, Threads
  <2>3. SocketInv
    BY <2>1 DEF Init, SocketInv
  <2>4. HolderInv
    BY <2>2 DEF HolderInv
  <2>5. CountInv
    BY <2>2, FS_EmptySet DEF CountInv
  <2>6. QED
    BY <2>3, <2>4, <2>5 DEF SlotInv
<1>2. TypeOK /\ SlotInv /\ [Next]_vars => SlotInv'
  <2>1. SUFFICES ASSUME TypeOK, SlotInv, [Next]_vars PROVE SlotInv'
    OBVIOUS
  <2>2. ASSUME UNCHANGED <<conn, clients, faults>>,
               main' \in {"serve", "closing"} => main \in {"serve", "closing"},
               main \in {"waiting", "ended"} => main' \in {"waiting", "ended"}
        PROVE  SlotInv'
    <3>1. Threads' = Threads
      BY <2>2 DEF Threads
    <3>2. \A c \in Threads : conn[c].pc # "start" => conn[c].sock = client_socket[conn[c].slot]
      BY <2>1 DEF SlotInv, HolderInv, Holds
    <3>3. QED
      BY <2>1, <2>2, <3>1, <3>2, TablesKept
  <2>3. ASSUME NEW c \in Conns, Accept(c) PROVE SlotInv'
    BY <2>1, <2>3, AcceptKeepsSlots
  <2>4. ASSUME NEW c \in Conns, Refuse(c) PROVE SlotInv'
    <3>1. \A d \in Conns \ {c} : conn'[d] = conn[d]
      BY <2>1, <2>4, OneThread
    <3>2. conn[c].pc = "none" /\ conn'[c].pc = "gone"
      BY <2>1, <2>4 DEF Refuse, Gone, Nobody, TypeOK
    <3>3. Threads' = Threads /\ \A d \in Threads : conn'[d] = conn[d]
      BY <3>1, <3>2 DEF Threads
    <3>4. \A d \in Threads : conn[d].pc # "start" => conn[d].sock = client_socket[conn[d].slot]
      BY <2>1 DEF SlotInv, HolderInv, Holds
    <3>5. QED
      BY <2>1, <2>4, <3>3, <3>4, TablesKept DEF Refuse
  <2>5. ASSUME NEW c \in Conns, Step(c) \/ Input(c) PROVE SlotInv'
    <3>0. conn \in [Conns -> Client] /\ conn[c] \in Client
      BY <2>1 DEF TypeOK
    <3>1. \A d \in Conns \ {c} : conn'[d] = conn[d]
      BY <2>1, <2>5, OneThread
    <3>2. UNCHANGED <<main, faults>>
      BY <2>5 DEF Step, Input, Start, Leave, Execute, WriteRaw, Answer, AuthError, Welcome,
                  NextRecordings, RestOfPage, Password, Send, EndOfInput, RequestTimeout, Request, same
    <3>3. CASE UNCHANGED clients
      <4>1. /\ c \in Threads' <=> c \in Threads
            /\ c \in Threads => conn'[c].slot = conn[c].slot
            /\ c \in Threads /\ conn'[c].pc # "start" => conn'[c].sock = client_socket[conn[c].slot]
        BY <2>1, <2>5, <3>3, SlotOfThreadKept
      <4>2. Threads' = Threads
        <5>1. \A d \in Conns \ {c} : d \in Threads' <=> d \in Threads
          BY <3>1 DEF Threads
        <5>2. Threads \subseteq Conns /\ Threads' \subseteq Conns
          BY DEF Threads
        <5>3. QED
          BY <4>1, <5>1, <5>2
      <4>3. \A d \in Threads : /\ conn'[d].slot = conn[d].slot
                               /\ conn'[d].pc # "start" => conn'[d].sock = client_socket[conn[d].slot]
        <5>1. \A d \in Threads : conn[d].pc # "start" => conn[d].sock = client_socket[conn[d].slot]
          BY <2>1 DEF SlotInv, HolderInv, Holds
        <5>2. \A d \in Threads : d = c \/ conn'[d] = conn[d]
          BY <3>1 DEF Threads
        <5>3. QED
          BY <4>1, <5>1, <5>2
      <4>4. QED
        BY <2>1, <3>2, <3>3, <4>2, <4>3, TablesKept
    <3>4. CASE Freed(c) /\ conn[c].pc \in {"leave", "password"} /\ conn'[c].pc \in {"gone", "autherror"}
      <4>1. c \in Threads /\ c \notin Threads' /\ conn[c].pc # "start"
        BY <3>4 DEF Threads
      <4>2. QED
        BY <2>1, <3>1, <3>2, <3>4, <4>1, FreedKeepsSlots
    <3>5. Leave(c) => Freed(c) /\ conn[c].pc = "leave" /\ conn'[c].pc = "gone"
      BY <3>0 DEF Leave, Gone, Nobody, At
    <3>6. \A answer : Password(c, answer) =>
             \/ UNCHANGED clients
             \/ Freed(c) /\ conn[c].pc = "password" /\ conn'[c].pc = "autherror"
      BY <3>0 DEF Password, Goto, Client, At
    <3>7. ~Leave(c) /\ (\A answer : ~Password(c, answer)) => UNCHANGED clients
      BY <2>5 DEF Step, Input, Start, Execute, WriteRaw, Answer, AuthError, Welcome,
                  NextRecordings, RestOfPage, Send, EndOfInput, RequestTimeout, Request
    <3>8. QED
      BY <3>3, <3>4, <3>5, <3>6, <3>7
  <2>6. ASSUME NEW c \in Conns, Stall(c) PROVE SlotInv'
    BY <2>2, <2>6 DEF Stall
  <2>7. CASE Signal \/ StopServing \/ Exit \/ Schedule
    BY <2>2, <2>7 DEF Signal, StopServing, Exit, Schedule
  <2>8. CASE CloseAll
    <3>1. UNCHANGED <<client_socket, cli_threads, ncli_threads, conn, faults>> /\ main' = "waiting"
      BY <2>8 DEF CloseAll
    <3>2. Threads' = Threads
      BY <3>1 DEF Threads
    <3>3. QED
      BY <2>1, <3>1, <3>2 DEF SlotInv, SocketInv, HolderInv, Holds, CountInv
  <2>9. CASE UNCHANGED vars
    BY <2>2, <2>9 DEF vars
  <2>10. QED
    BY <2>1, <2>3, <2>4, <2>5, <2>6, <2>7, <2>8, <2>9 DEF Next
<1>3. TypeOK /\ SlotInv => SlotsMatch
  <2>1. SUFFICES ASSUME TypeOK, SlotInv PROVE SlotsMatch
    OBVIOUS
  <2>2. \A c \in Threads : Holds(c) /\ \A d \in Threads \ {c} : conn[d].slot # conn[c].slot
    BY <2>1 DEF SlotInv, HolderInv
  <2>3. QED
    BY <2>1, <2>2 DEF SlotInv, CountInv, SlotsMatch, Holds
<1>4. QED
  BY <1>1, <1>2, <1>3, TypesKept, PTL DEF Spec
=============================================================================
