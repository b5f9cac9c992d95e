------------------------- MODULE EngineCallsProofs -------------------------
(***************************************************************************)
(* Proof that no call of CallJs is lost without a trace or counted twice,  *)
(* on its way through the tasks of the UI thread, the messages to the      *)
(* renderers and callback_map_, for all constants.                         *)
(***************************************************************************)
EXTENDS EngineProofs

\* The numbers at each station, by their places.
Sent == [b \in Browser |-> SentTo(b)]

LEMMA Stations ==
    /\ Posted = {ui[n].call.no : n \in Waits}
    /\ Sent = [b \in Browser |-> {toRenderer[b][n].no : n \in DOMAIN toRenderer[b]}]
    /\ Ran = {ran[n].no : n \in DOMAIN ran}
    /\ Posted' = {ui'[n].call.no : n \in Waits'}
    /\ Sent' = [b \in Browser |-> {toRenderer'[b][n].no : n \in DOMAIN toRenderer'[b]}]
    /\ Ran' = {ran'[n].no : n \in DOMAIN ran'}
BY DEF Posted, Sent, SentTo, Ran, TasksOf, Waits

\* A call that was made is at one station, or has come to one end.
Ends == UNION {Ran, unhandled, dropped}
Book ==
    /\ \A no : no \in 1 .. posted <=> \/ no \in Posted \/ no \in Ends
                                      \/ \E b \in Browser : no \in Sent[b]
    /\ \A no \in Posted : no \notin Ends /\ \A b \in Browser : no \notin Sent[b]
    /\ \A b \in Browser : \A no \in Sent[b] :
          no \notin Ends /\ \A d \in Browser \ {b} : no \notin Sent[d]
    /\ Ran \cap (unhandled \cup dropped) = {}

LEMMA BookConserves == Book => CallsConserved
<1> SUFFICES ASSUME Book PROVE CallsConserved
  OBVIOUS
<1>1. \A b \in Browser : Sent[b] = SentTo(b)
  BY DEF Sent
<1>2. UNION {Posted, UNION {SentTo(b) : b \in Browser}, Ran, unhandled, dropped}
          = 1 .. posted
  <2>1. \A no : no \in UNION {SentTo(b) : b \in Browser}
                   <=> \E b \in Browser : no \in Sent[b]
    BY <1>1
  <2> QED
    BY <2>1 DEF Book, Ends
<1>3. /\ \A b \in Browser : SentTo(b) \cap UNION {Posted, Ran, unhandled, dropped} = {}
      /\ Posted \cap UNION {Ran, unhandled, dropped} = {}
  BY <1>1 DEF Book, Ends
<1> QED
  BY <1>2, <1>3 DEF CallsConserved, Book

LEMMA InitBook == Init => Book
<1> SUFFICES ASSUME Init PROVE Book
  OBVIOUS
<1>1. Waits = {} /\ DOMAIN ran = {} /\ \A b \in Browser : DOMAIN toRenderer[b] = {}
  BY DEF Init, CefInit, HandlerInit, BridgeInit, Waits
<1>2. Posted = {} /\ Ran = {} /\ \A b \in Browser : Sent[b] = {}
  BY <1>1, Stations
<1>3. posted = 0 /\ unhandled = {} /\ dropped = {}
  BY DEF Init, HandlerInit, BridgeInit
<1> QED
  BY <1>2, <1>3 DEF Book, Ends

-----------------------------------------------------------------------------
(* What a step does to the stations.                                       *)

\* A task is taken from the UI thread: a call leaves its station, where its
\* number was the only one.
LEMMA TakesStation ==
    ASSUME TypeOK, OrderInv, NEW op, NEW r, NEW w, Takes(op, r, w)
    PROVE  IF op = "callJs"
             THEN Head(ui).call.no \in Posted /\ Posted' = Posted \ {Head(ui).call.no}
             ELSE Posted' = Posted
<1>1. ui \in Seq(UiTask) /\ ui # <<>> /\ ui' = Tail(ui) /\ Head(ui).op = op
  BY DEF TypeOK, HandlerTypeOK, Takes
<1>2. /\ Len(ui) \in Nat \ {0} /\ DOMAIN ui = 1 .. Len(ui)
      /\ Head(ui) = ui[1] /\ DOMAIN ui' = 1 .. Len(ui) - 1
      /\ \A n \in 1 .. Len(ui) - 1 : ui'[n] = ui[n + 1]
  BY <1>1, EmptySeq, HeadTailProperties
<1>3. /\ \A n \in Waits' : n + 1 \in Waits \ {1} /\ ui'[n] = ui[n + 1]
      /\ \A n \in Waits \ {1} : n - 1 \in Waits' /\ ui'[n - 1] = ui[n] /\ 1 < n
  BY <1>2 DEF Waits
<1>4. Posted' = {ui[n].call.no : n \in Waits \ {1}}
  BY <1>3, Stations
<1>5. ASSUME op = "callJs"
      PROVE  Head(ui).call.no \in Posted /\ Posted' = Posted \ {Head(ui).call.no}
  <2>1. 1 \in Waits
    BY <1>1, <1>2, <1>5 DEF Waits
  <2>2. \A n \in Waits \ {1} : ui[1].call.no < ui[n].call.no /\ ui[n].call.no \in Nat
    BY <1>3, <2>1, CallNumbers DEF OrderInv, UiOrdered
  <2>3. ui[1].call.no \in Nat
    BY <2>1, CallNumbers
  <2> QED
    BY <1>2, <1>4, <2>1, <2>2, <2>3, Stations
<1>6. ASSUME op # "callJs" PROVE Posted' = Posted
  <2>1. 1 \notin Waits
    BY <1>1, <1>2, <1>6 DEF Waits
  <2> QED
    BY <1>4, <2>1, Stations
<1> QED
  BY <1>5, <1>6

\* A task is posted to the UI thread.
LEMMA PostsStation ==
    ASSUME TypeOK, NEW x \in UiTask, ui' = Append(ui, x)
    PROVE  Posted' = IF x.op = "callJs" THEN Posted \cup {x.call.no} ELSE Posted
<1>1. ui \in Seq(UiTask)
  BY DEF TypeOK, HandlerTypeOK
<1>2. /\ Len(ui) \in Nat /\ DOMAIN ui = 1 .. Len(ui) /\ DOMAIN ui' = 1 .. Len(ui) + 1
      /\ \A n \in 1 .. Len(ui) : ui'[n] = ui[n]
      /\ ui'[Len(ui) + 1] = x
  BY <1>1, AppendProperties
<1>3. Waits' = Waits \cup (IF x.op = "callJs" THEN {Len(ui) + 1} ELSE {})
  BY <1>2 DEF Waits
<1>4. \A n \in Waits : ui'[n] = ui[n]
  BY <1>2 DEF Waits
<1>5. /\ Posted = {ui[n].call.no : n \in Waits}
      /\ Posted' = {ui'[n].call.no : n \in Waits'}
  BY Stations
<1>6. CASE x.op = "callJs"
  <2>1. Waits' = Waits \cup {Len(ui) + 1}
    BY <1>3, <1>6
  <2>2. Posted' = {ui'[n].call.no : n \in Waits} \cup {ui'[Len(ui) + 1].call.no}
    BY <1>5, <2>1
  <2>3. {ui'[n].call.no : n \in Waits} = Posted
    BY <1>4, <1>5
  <2>4. Posted' = Posted \cup {x.call.no}
    BY <1>2, <2>2, <2>3
  <2> QED
    BY <1>6, <2>4
<1>7. CASE x.op # "callJs"
  <2>1. Waits' = Waits
    BY <1>3, <1>7
  <2>2. Posted' = Posted
    BY <1>4, <1>5, <2>1
  <2> QED
    BY <1>7, <2>2
<1> QED
  BY <1>6, <1>7

\* A call is sent to the renderer of a browser.
LEMMA SendsStation ==
    ASSUME TypeOK, NEW b \in Browser, NEW call \in Call, SendCall(b, call)
    PROVE  Sent' = [Sent EXCEPT ![b] = @ \cup {call.no}]
<1>1. /\ toRenderer[b] \in Seq(Call) /\ toRenderer'[b] = Append(toRenderer[b], call)
      /\ \A d \in Browser : d # b => toRenderer'[d] = toRenderer[d]
  BY DEF SendCall, TypeOK, CefTypeOK
<1>2. /\ Len(toRenderer[b]) \in Nat /\ DOMAIN toRenderer[b] = 1 .. Len(toRenderer[b])
      /\ DOMAIN toRenderer'[b] = DOMAIN toRenderer[b] \cup {Len(toRenderer[b]) + 1}
      /\ \A n \in DOMAIN toRenderer[b] : toRenderer'[b][n] = toRenderer[b][n]
      /\ toRenderer'[b][Len(toRenderer[b]) + 1] = call
  BY <1>1, AppendProperties
<1>3. Sent'[b] = Sent[b] \cup {call.no}
  BY <1>2, Stations
<1>4. \A d \in Browser : d # b => Sent'[d] = Sent[d]
  BY <1>1, Stations
<1> QED
  BY <1>3, <1>4 DEF Sent

\* A renderer takes a call: its number was the only one there.
LEMMA TakesSent ==
    ASSUME TypeOK, OrderInv, NEW b \in Browser, TakesCall(b)
    PROVE  /\ Head(toRenderer[b]).no \in Sent[b]
           /\ Sent' = [Sent EXCEPT ![b] = @ \ {Head(toRenderer[b]).no}]
<1>1. /\ toRenderer[b] \in Seq(Call) /\ toRenderer[b] # <<>>
      /\ toRenderer'[b] = Tail(toRenderer[b])
      /\ \A d \in Browser : d # b => toRenderer'[d] = toRenderer[d]
  BY DEF TypeOK, CefTypeOK, TakesCall
<1> DEFINE s == toRenderer[b]
           t == toRenderer'[b]
<1>2. /\ Len(s) \in Nat \ {0} /\ DOMAIN s = 1 .. Len(s)
      /\ Head(s) = s[1] /\ DOMAIN t = 1 .. Len(s) - 1
      /\ \A n \in 1 .. Len(s) - 1 : t[n] = s[n + 1]
  BY <1>1, EmptySeq, HeadTailProperties
<1>3. /\ \A n \in DOMAIN s : s[n].no \in Nat
      /\ \A m, n \in DOMAIN s : m < n => s[m].no < s[n].no
  BY CallNumbers DEF OrderInv, SentOrdered
<1>4. Sent[b] = {s[n].no : n \in DOMAIN s} /\ Sent'[b] = {t[n].no : n \in DOMAIN t}
  BY Stations
<1>5. \A d \in Browser : d # b => Sent'[d] = Sent[d]
  BY <1>1, Stations
<1> HIDE DEF s, t
<1>6. /\ \A n \in DOMAIN t : n + 1 \in DOMAIN s \ {1} /\ t[n] = s[n + 1]
      /\ \A n \in DOMAIN s \ {1} : n - 1 \in DOMAIN t /\ t[n - 1] = s[n] /\ 1 < n
      /\ 1 \in DOMAIN s
  BY <1>2
<1>7. {t[n].no : n \in DOMAIN t} = {s[n].no : n \in DOMAIN s \ {1}}
  BY <1>6
<1>8. \A n \in DOMAIN s \ {1} : s[n].no # s[1].no
  BY <1>3, <1>6
<1>9. Head(s).no \in Sent[b] /\ Sent'[b] = Sent[b] \ {Head(s).no}
  <2>1. Head(s).no = s[1].no
    BY <1>2
  <2>2. Sent[b] = {s[1].no} \cup {s[n].no : n \in DOMAIN s \ {1}}
    BY <1>4, <1>6
  <2>3. s[1].no \notin {s[n].no : n \in DOMAIN s \ {1}}
    BY <1>8
  <2> QED
    BY <1>4, <1>7, <2>1, <2>2, <2>3
<1> QED
  BY <1>5, <1>9 DEF Sent, s

\* The renderer executes a function for the call.
LEMMA RunsStation ==
    ASSUME TypeOK, NEW x \in [no : CallNo, browser : Browser], ran' = Append(ran, x)
    PROVE  Ran' = Ran \cup {x.no}
<1>1. ran \in Seq([no : CallNo, browser : Browser])
  BY DEF TypeOK, BridgeTypeOK
<1>2. /\ Len(ran) \in Nat /\ DOMAIN ran = 1 .. Len(ran)
      /\ DOMAIN ran' = DOMAIN ran \cup {Len(ran) + 1}
      /\ \A n \in DOMAIN ran : ran'[n] = ran[n]
      /\ ran'[Len(ran) + 1] = x
  BY <1>1, AppendProperties
<1> QED
  BY <1>2, Stations

-----------------------------------------------------------------------------
(* Every step keeps the book.                                              *)

LEMMA SameBook ==
    ASSUME Book, Posted' = Posted, UNCHANGED <<toRenderer, ran, unhandled, dropped, posted>>
    PROVE  Book'
<1>1. Sent' = Sent /\ Ran' = Ran
  BY Stations DEF Sent, SentTo, Ran, TasksOf
<1>2. Ends' = Ends
  BY <1>1 DEF Ends
<1> QED
  BY <1>1, <1>2 DEF Book

LEMMA SameUi == ui' = ui => Posted' = Posted
BY DEF Posted, TasksOf

LEMMA CallBook ==
    ASSUME TypeOK, Book, NEW r \in Requester, NEW w \in Wnd, NEW n \in Name,
           CallJs(r, w, n), UNCHANGED bridgeVars
    PROVE  Book'
<1> DEFINE x == [op |-> "callJs", wnd |-> w, from |-> r,
                 call |-> [no |-> posted', name |-> n]]
<1>1. posted \in Nat /\ posted' = posted + 1 /\ posted' \in CallNo
  BY CallNumbers, CefAssumption DEF CallJs, CallNo
<1>2. x \in UiTask
  BY <1>1 DEF UiTask, Call
<1>3. ui' = Append(ui, x) /\ x.op = "callJs" /\ x.call.no = posted'
  BY DEF CallJs
<1> HIDE DEF x
<1>4. Posted' = Posted \cup {posted'}
  BY <1>2, <1>3, PostsStation
<1>5. Sent' = Sent /\ Ran' = Ran /\ Ends' = Ends
      /\ unhandled' = unhandled /\ dropped' = dropped
  BY DEF CallJs, cefVars, bridgeVars, Sent, SentTo, Ran, TasksOf, Ends
<1>6. posted' \notin 1 .. posted /\ 1 .. posted' = 1 .. posted \cup {posted'}
  BY <1>1
<1>7. posted' \notin Posted /\ posted' \notin Ends
      /\ \A b \in Browser : posted' \notin Sent[b]
  BY <1>6 DEF Book
<1> QED
  BY <1>4, <1>5, <1>6, <1>7 DEF Book

LEMMA SendBook ==
    ASSUME TypeOK, OrderInv, Book, NEW r \in Requester, NEW w \in Wnd, callJs(r, w),
           UNCHANGED bridgeVars
    PROVE  Book'
<1> DEFINE b == browser_map[w].browser
           call == Head(ui).call
<1>1. Takes("callJs", r, w) /\ SendCall(b, call)
  BY DEF callJs
<1>2. call \in Call
  <2>1. ui \in Seq(UiTask) /\ ui # <<>> /\ Head(ui).op = "callJs"
    BY <1>1 DEF Takes, TypeOK, HandlerTypeOK
  <2>2. 1 \in Waits /\ call = ui[1].call
    BY <2>1, TailElements DEF Waits
  <2> QED
    BY <2>2, CallNumbers
<1>3. b \in Browser
  BY DEF callJs, TypeOK, HandlerTypeOK, Entry
<1>4. call.no \in Posted /\ Posted' = Posted \ {call.no}
  BY <1>1, TakesStation
<1> HIDE DEF b, call
<1>5. Sent' = [Sent EXCEPT ![b] = @ \cup {call.no}]
  BY <1>1, <1>2, <1>3, SendsStation
<1>6. Ran' = Ran /\ Ends' = Ends /\ posted' = posted
      /\ unhandled' = unhandled /\ dropped' = dropped
  BY DEF callJs, bridgeVars, Ran, TasksOf, Ends
<1>7. \A d \in Browser : Sent'[d] = IF d = b THEN Sent[d] \cup {call.no} ELSE Sent[d]
  BY <1>5 DEF Sent
<1>8. ASSUME NEW no
      PROVE  (\E d \in Browser : no \in Sent'[d])
                 <=> no = call.no \/ \E d \in Browser : no \in Sent[d]
  BY <1>3, <1>7
<1>9. \A no : no \in Posted' <=> no \in Posted /\ no # call.no
  BY <1>4
<1>10. \A no : no \in 1 .. posted' <=> \/ no \in Posted' \/ no \in Ends'
                                      \/ \E d \in Browser : no \in Sent'[d]
  BY <1>4, <1>6, <1>8, <1>9 DEF Book
<1>11. ASSUME NEW no \in Posted'
       PROVE  no \notin Ends' /\ \A d \in Browser : no \notin Sent'[d]
  <2>1. no \in Posted /\ no # call.no
    BY <1>9
  <2>2. no \notin Ends /\ \A d \in Browser : no \notin Sent[d]
    BY <2>1 DEF Book
  <2> QED
    BY <1>6, <1>7, <2>1, <2>2
<1>12. ASSUME NEW d \in Browser, NEW no \in Sent'[d]
       PROVE  no \notin Ends' /\ \A e \in Browser \ {d} : no \notin Sent'[e]
  <2>1. CASE no = call.no
    <3>1. no \notin Ends /\ \A e \in Browser : no \notin Sent[e]
      BY <1>4, <2>1 DEF Book
    <3>2. d = b
      BY <1>7, <3>1
    <3> QED
      BY <1>6, <1>7, <3>1, <3>2
  <2>2. CASE no # call.no
    <3>1. no \in Sent[d]
      BY <1>7, <2>2
    <3>2. no \notin Ends /\ \A e \in Browser \ {d} : no \notin Sent[e]
      BY <3>1 DEF Book
    <3> QED
      BY <1>6, <1>7, <2>2, <3>2
  <2> QED
    BY <2>1, <2>2
<1>13. Ran' \cap (unhandled' \cup dropped') = {}
  BY <1>6 DEF Book
<1> QED
  BY <1>10, <1>11, <1>12, <1>13 DEF Book

LEMMA DropBook ==
    ASSUME TypeOK, OrderInv, Book, NEW r \in Requester, NEW w \in Wnd,
           callJsDropped(r, w), UNCHANGED bridgeVars
    PROVE  Book'
<1> DEFINE no == Head(ui).call.no
<1>1. Takes("callJs", r, w) /\ dropped' = dropped \cup {no}
  BY DEF callJsDropped
<1>2. no \in Posted /\ Posted' = Posted \ {no}
  BY <1>1, TakesStation
<1> HIDE DEF no
<1>3. Sent' = Sent /\ Ran' = Ran /\ posted' = posted /\ unhandled' = unhandled
  BY DEF callJsDropped, bridgeVars, cefVars, Sent, SentTo, Ran, TasksOf
<1>4. Ends' = Ends \cup {no}
  BY <1>1, <1>3 DEF Ends
<1>5. no \notin Ran
  BY <1>2 DEF Book, Ends
<1> QED
  BY <1>1, <1>2, <1>3, <1>4, <1>5 DEF Book

LEMMA RenderBook ==
    ASSUME TypeOK, OrderInv, Book, NEW b \in Browser,
           CallJsFunction(b) \/ CallNotHandled(b), UNCHANGED handlerVars
    PROVE  Book'
<1> DEFINE no == Head(toRenderer[b]).no
<1>1. TakesCall(b)
  BY DEF CallJsFunction, CallNotHandled
<1>2. no \in Sent[b] /\ Sent' = [Sent EXCEPT ![b] = @ \ {no}]
  BY <1>1, TakesSent
<1>3. Posted' = Posted /\ posted' = posted /\ dropped' = dropped
  BY DEF handlerVars, Posted, TasksOf
<1>4. \/ Ran' = Ran \cup {no} /\ unhandled' = unhandled
      \/ Ran' = Ran /\ unhandled' = unhandled \cup {no}
  <2>1. ASSUME CallJsFunction(b) PROVE Ran' = Ran \cup {no} /\ unhandled' = unhandled
    <3>1. [no |-> no, browser |-> b] \in [no : CallNo, browser : Browser]
      BY <1>1, TakenCall
    <3>2. /\ ran' = Append(ran, [no |-> no, browser |-> b])
          /\ unhandled' = unhandled
      BY <2>1 DEF CallJsFunction
    <3> HIDE DEF no
    <3> QED
      BY <3>1, <3>2, RunsStation
  <2>2. ASSUME CallNotHandled(b) PROVE Ran' = Ran /\ unhandled' = unhandled \cup {no}
    BY <2>2 DEF CallNotHandled, Ran, TasksOf
  <2> QED
    BY <2>1, <2>2
<1> HIDE DEF no
<1>5. Ends' = Ends \cup {no}
  BY <1>3, <1>4 DEF Ends
<1>6. no \notin Ends /\ no \notin Posted
  BY <1>2 DEF Book
<1>7. \A d \in Browser : Sent'[d] = IF d = b THEN Sent[d] \ {no} ELSE Sent[d]
  BY <1>2 DEF Sent
<1>8. Ran' \cap (unhandled' \cup dropped') = {}
  BY <1>3, <1>4, <1>6 DEF Book, Ends
<1> QED
  BY <1>2, <1>3, <1>5, <1>6, <1>7, <1>8 DEF Book

LEMMA StepBook == EngineInv /\ OrderInv /\ Book /\ [Next]_vars => Book'
<1> SUFFICES ASSUME EngineInv, OrderInv, Book, [Next]_vars PROVE Book'
  OBVIOUS
<1>0. TypeOK
  BY DEF EngineInv
<1>1. CASE HandlerNext /\ UNCHANGED bridgeVars
  <2>0. UNCHANGED <<ran, unhandled>>
    BY <1>1 DEF bridgeVars
  <2>1. ASSUME NEW r \in Requester, NEW w \in Wnd, Load(r, w) PROVE Book'
    <3> DEFINE x == [op |-> "load", wnd |-> w, from |-> r]
    <3>1. x \in UiTask /\ x.op # "callJs"
      BY DEF UiTask
    <3>2. ui' = Append(ui, x) /\ UNCHANGED <<toRenderer, posted, dropped>>
      BY <2>1 DEF Load, cefVars
    <3> HIDE DEF x
    <3>3. Posted' = Posted
      BY <1>0, <3>1, <3>2, PostsStation
    <3> QED
      BY <2>0, <3>2, <3>3, SameBook
  <2>2. ASSUME NEW r \in Requester, NEW w \in Wnd, NEW n \in Name, CallJs(r, w, n)
        PROVE  Book'
    BY <1>0, <1>1, <2>2, CallBook
  <2>3. ASSUME NEW r \in Requester, RequesterStops(r) \/ RequesterListens(r)
        PROVE  Book'
    BY <2>0, <2>3, SameUi, SameBook DEF RequesterStops, RequesterListens, cefVars
  <2>4. ASSUME NEW b \in Browser, OnBeforeClose(b) \/ OnBeforePopup(b) \/ notifyMsg(b)
        PROVE  Book'
    BY <2>0, <2>4, SameUi, SameBook DEF OnBeforeClose, OnBeforePopup, notifyMsg
  <2>5. ASSUME NEW r \in Requester, NEW w \in Wnd,
               \/ LoadAgain(r, w) \/ LoadNotConnected(r, w)
               \/ LoadNoBrowser(r, w) \/ LoadBrowser(r, w)
        PROVE  Book'
    <3>1. Takes("load", r, w) /\ UNCHANGED <<toRenderer, posted, dropped>>
      BY <2>5 DEF LoadAgain, LoadNotConnected, LoadNoBrowser, LoadBrowser, cefVars
    <3>2. Posted' = Posted
      BY <1>0, <3>1, TakesStation
    <3> QED
      BY <2>0, <3>1, <3>2, SameBook
  <2>6. ASSUME NEW r \in Requester, NEW w \in Wnd, callJs(r, w) \/ callJsDropped(r, w)
        PROVE  Book'
    BY <1>0, <1>1, <2>6, SendBook, DropBook
  <2> QED
    BY <1>1, <2>1, <2>2, <2>3, <2>4, <2>5, <2>6
       DEF HandlerNext, Users, Callbacks, UiThread
<1>2. CASE BridgeNext /\ UNCHANGED handlerVars
  <2>1. CASE Scripts \/ CallReturns
    <3>1. UNCHANGED <<toRenderer, ran, unhandled>>
      BY <2>1 DEF Scripts, OnContextCreated, OnContextReleased,
                  registerJavascriptFunction, sendMessage, CallReturns, cefVars
    <3>2. UNCHANGED <<ui, posted, dropped>>
      BY <1>2 DEF handlerVars
    <3> QED
      BY <3>1, <3>2, SameUi, SameBook
  <2> QED
    BY <1>0, <1>2, <2>1, RenderBook DEF BridgeNext, Renderer
<1>3. CASE UNCHANGED vars
  BY <1>3, SameUi, SameBook DEF vars, handlerVars, bridgeVars, cefVars
<1> QED
  BY <1>1, <1>2, <1>3 DEF Next

\* A call of CallJs that was made is under way in one place, or has come to
\* one end: none is lost without a trace, none is executed and dropped.
THEOREM CallsAccounted == Spec => []CallsConserved
BY BookConserves, InitBook, StepBook, InitOrder, StepOrder, EngineInvariant, PTL DEF Spec
=============================================================================
