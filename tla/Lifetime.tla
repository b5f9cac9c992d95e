------------------------------ MODULE Lifetime ------------------------------
(***************************************************************************)
(* How long a server process lives.  The broker (src/WebContainer/main.cpp)*)
(* and the engine (src/Chromium/MainBrowser/main.cpp) have the same rule:  *)
(* g_ref counts the connected clients, the process is asked to exit when   *)
(* the last one leaves, and RequesterChecker asks it to when none has come *)
(* in the first seconds.  The broker's main loop polls g_bExit; the        *)
(* engine's runs the task CefQuitMessageLoop: both act on it later.  When  *)
(* main is "gone" the process has ended, and no thread of it runs.         *)
(***************************************************************************)
EXTENDS Integers, Sequences, FiniteSets

CONSTANTS
    Client,      \* the processes that may connect
    Seconds,     \* how often RequesterChecker sleeps: 5 in the code
    MaxConnects  \* bound: number of connections that are made

ASSUME LifetimeAssumption ==
    /\ IsFiniteSet(Client)
    /\ Seconds \in Nat \ {0} /\ MaxConnects \in Nat

VARIABLES
    linked,    \* clients that are connected to the server
    events,    \* events[c]: calls of AcptEventProc sRPC has yet to make
    ref,       \* g_ref
    lastOne,   \* clients whose event saw --g_ref = 0 and has not asked yet
    i,         \* the counter of RequesterChecker
    checker,   \* the next statement of RequesterChecker
    asked,     \* g_bExit, or the task CefQuitMessageLoop is posted
    main,      \* the main thread
    early,     \* clients counted before the last test of RequesterChecker
    left,      \* clients counted out
    connects   \* connections made

process == <<ref, lastOne, i, checker, asked, early, left>>
vars == <<linked, events, process, main, connects>>

Init ==
    /\ linked = {} /\ events = [c \in Client |-> <<>>]
    /\ ref = 0 /\ lastOne = {}
    /\ i = 0 /\ checker = "test" /\ asked = FALSE /\ main = "loop"
    /\ early = {} /\ left = {} /\ connects = 0

-----------------------------------------------------------------------------
(* The clients, and sRPC: event 0 for a connection, 1 for its end.         *)

Connect(c) ==
    /\ main # "gone" /\ connects < MaxConnects
    /\ c \notin linked
    /\ linked' = linked \cup {c}
    /\ events' = [events EXCEPT ![c] = Append(@, 0)]
    /\ connects' = connects + 1
    /\ UNCHANGED <<process, main>>

Disconnect(c) ==
    /\ c \in linked
    /\ linked' = linked \ {c}
    /\ events' = [events EXCEPT ![c] = Append(@, 1)]
    /\ UNCHANGED <<process, main, connects>>

-----------------------------------------------------------------------------
(* AcptEventProc (the broker's is OnClientError), on the threads of sRPC:  *)
(* the events of two clients may be handled at the same time.              *)

\* Mutated form: the counter goes down, and nothing follows from it.
CountOutOnly(c) ==
    /\ main # "gone"
    /\ events[c] # <<>> /\ Head(events[c]) = 1 /\ c \notin lastOne
    /\ events' = [events EXCEPT ![c] = Tail(@)]
    /\ ref' = ref - 1 /\ left' = left \cup {c}
    /\ UNCHANGED <<linked, lastOne, i, checker, asked, early, main, connects>>

CountIn(c) ==
    /\ main # "gone"
    /\ events[c] # <<>> /\ Head(events[c]) = 0 /\ c \notin lastOne
    /\ events' = [events EXCEPT ![c] = Tail(@)]
    /\ ref' = ref + 1
    /\ early' = IF checker \in {"test", "sleep", "final"} THEN early \cup {c}
                                                          ELSE early
    /\ UNCHANGED <<linked, lastOne, i, checker, asked, left, main, connects>>

\* Mutated form: the type of the event is not tested.
CountOutAny(c) ==
    /\ main # "gone"
    /\ events[c] # <<>> /\ c \notin lastOne
    /\ events' = [events EXCEPT ![c] = Tail(@)]
    /\ ref' = ref - 1
    /\ lastOne' = IF ref = 1 THEN lastOne \cup {c} ELSE lastOne
    /\ left' = left \cup {c}
    /\ UNCHANGED <<linked, i, checker, asked, early, main, connects>>

CountOut(c) ==
    /\ main # "gone"
    /\ events[c] # <<>> /\ Head(events[c]) = 1 /\ c \notin lastOne
    /\ events' = [events EXCEPT ![c] = Tail(@)]
    /\ ref' = ref - 1
    /\ lastOne' = IF ref = 1 THEN lastOne \cup {c} ELSE lastOne
    /\ left' = left \cup {c}
    /\ UNCHANGED <<linked, i, checker, asked, early, main, connects>>

LastOneAsks(c) ==
    /\ main # "gone" /\ c \in lastOne
    /\ lastOne' = lastOne \ {c}
    /\ asked' = TRUE
    /\ UNCHANGED <<linked, events, ref, i, checker, early, left, main, connects>>

-----------------------------------------------------------------------------
(* RequesterChecker, on a thread of the pool.                              *)

CheckerTest ==
    /\ main # "gone" /\ checker = "test"
    /\ checker' = IF ref = 0 /\ i < Seconds THEN "sleep" ELSE "final"
    /\ UNCHANGED <<linked, events, ref, lastOne, i, asked, early, left, main,
                   connects>>

CheckerSleep ==
    /\ main # "gone" /\ checker = "sleep"
    /\ i' = i + 1 /\ checker' = "test"
    /\ UNCHANGED <<linked, events, ref, lastOne, asked, early, left, main,
                   connects>>

\* Mutated form: the decision is the counter's, g_ref is not read again.
CheckerFinalCount ==
    /\ main # "gone" /\ checker = "final"
    /\ checker' = IF i = Seconds THEN "ask" ELSE "done"
    /\ UNCHANGED <<linked, events, ref, lastOne, i, asked, early, left, main,
                   connects>>

CheckerFinal ==
    /\ main # "gone" /\ checker = "final"
    /\ checker' = IF ref = 0 THEN "ask" ELSE "done"
    /\ UNCHANGED <<linked, events, ref, lastOne, i, asked, early, left, main,
                   connects>>

CheckerAsks ==
    /\ main # "gone" /\ checker = "ask"
    /\ checker' = "done" /\ asked' = TRUE
    /\ UNCHANGED <<linked, events, ref, lastOne, i, early, left, main, connects>>

-----------------------------------------------------------------------------
(* wWinMain.                                                               *)

LeaveLoop ==
    /\ main = "loop" /\ asked
    /\ main' = "leaving"
    /\ UNCHANGED <<linked, events, process, connects>>

\* SRPC_DestroyServer and SRPC_Uninit: the clients lose their connection.
Shutdown ==
    /\ main = "leaving"
    /\ main' = "gone"
    /\ linked' = {}
    /\ UNCHANGED <<events, process, connects>>

Next ==
    \/ \E c \in Client :
         \/ Connect(c) \/ Disconnect(c)
         \/ CountIn(c) \/ CountOut(c) \/ LastOneAsks(c)
    \/ CheckerTest \/ CheckerSleep \/ CheckerFinal \/ CheckerAsks
    \/ LeaveLoop \/ Shutdown

Spec == Init /\ [][Next]_vars

\* sRPC delivers its events, and the threads of the process run.
Fairness ==
    /\ \A c \in Client : WF_vars(CountIn(c) \/ CountOut(c) \/ LastOneAsks(c))
    /\ WF_vars(CheckerTest \/ CheckerSleep \/ CheckerFinal \/ CheckerAsks)
    /\ WF_vars(LeaveLoop \/ Shutdown)
FairSpec == Spec /\ Fairness

-----------------------------------------------------------------------------
\* Every variable holds a value of its kind; g_ref is never negative.
TypeOK ==
    /\ linked \subseteq Client
    /\ events \in [Client -> Seq({0, 1})]
    /\ ref \in Nat
    /\ lastOne \subseteq Client
    /\ i \in 0 .. Seconds
    /\ checker \in {"test", "sleep", "final", "ask", "done"}
    /\ asked \in BOOLEAN
    /\ main \in {"loop", "leaving", "gone"}
    /\ early \subseteq Client /\ left \subseteq Client
    /\ connects \in 0 .. MaxConnects

\* main.cpp:78 (the broker), main.cpp:144 (the engine): the process exits if
\* its requester has not connected within 5 seconds.  So as long as no client
\* has left, one that was counted before the checker's last test keeps the
\* process alive, in whichever order the tests and the event fall.
RequesterKept == asked /\ left = {} => early = {}

\* A process that counts no client and is not asked to exit has somebody left
\* who may ask it: the checker, or the event that counted the last client out.
\* Otherwise, should no client come, it would run for ever.
SomeoneWillAsk ==
    ref = 0 /\ ~asked => lastOne # {} \/ checker \in {"test", "sleep", "final", "ask"}

\* A process all of whose clients are gone for good exits.
IdleExits ==
    [](linked = {} /\ (\A c \in Client : events[c] = <<>>)) ~> main = "gone"

\* The clients that g_ref stands for: those connected, as the events that were
\* handled say.
IsCounted(c) == IF events[c] = <<>> THEN c \in linked ELSE Head(events[c]) = 1
Counted == {c \in Client : IsCounted(c)}
Gone == main = "gone"
Doomed == asked \/ lastOne # {} \/ checker = "ask"

\* The process keeps the promise of ServerLife: it ends only if it once had no
\* client, or its last one left; and when it has none it does end.  The counter
\* is read and written in separate steps of several threads, and the decision
\* and the exit are some steps apart: a client that comes in between does not
\* undo it.
Life == INSTANCE ServerLife WITH
            members <- IF Gone THEN {} ELSE Counted, doomed <- Doomed, gone <- Gone
LifeSpec == Life!FairSpec

=============================================================================
