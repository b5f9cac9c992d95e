---------------------------- MODULE EngineProofs ----------------------------
(***************************************************************************)
(* Proofs about Engine, for every number of windows, requesters, handles,  *)
(* browsers, contexts and calls, with handles and windows used again.      *)
(***************************************************************************)
EXTENDS Engine, TLAPS, SequenceTheorems

-----------------------------------------------------------------------------
(* Types.                                                                  *)

LEMMA InitType == Init => TypeOK
<1> SUFFICES ASSUME Init PROVE TypeOK
  OBVIOUS
<1>1. <<>> \in Seq(Call) /\ <<>> \in Seq(Name) /\ <<>> \in Seq(UiTask)
      /\ <<>> \in Seq(Ctx) /\ <<>> \in Seq([no : CallNo, browser : Browser])
  OBVIOUS
<1>2. CefTypeOK
  BY <1>1, CefAssumption DEF Init, CefInit, CefTypeOK, Browser
<1>3. HandlerTypeOK
  <2>1. budget \in [{"load", "fault"} -> Nat]
    BY ClientHandlerAssumption DEF Init, HandlerInit
  <2>2. browser_map \in [Wnd -> Entry \cup {NoEntry}]
    BY DEF Init, HandlerInit
  <2>3. conn \in [Inst -> ConnState] /\ dest \in [Inst -> Requester \cup {NULL}]
        /\ creator \in [Browser -> Requester \cup {NULL}]
    BY DEF Init, HandlerInit, ConnState
  <2> QED
    BY <1>1, <2>1, <2>2, <2>3, CefAssumption DEF Init, HandlerInit, HandlerTypeOK
<1>4. BridgeTypeOK
  <2>1. callback_map \in [Name \X Browser -> Ctx \cup {NoCtx}]
    BY DEF Init, BridgeInit
  <2>2. home \in [Ctx -> 0 .. MaxBrowsers] /\ messages \in 0 .. MaxMessages
    BY CefAssumption, JsBridgeAssumption DEF Init, BridgeInit, Gone
  <2>3. running \in [ctx : Ctx \cup {NoCtx}, no : 0 .. MaxCalls]
    BY CefAssumption DEF Init, BridgeInit, Idle
  <2> QED
    BY <1>1, <2>1, <2>2, <2>3 DEF Init, BridgeInit, BridgeTypeOK
<1> QED
  BY <1>2, <1>3, <1>4 DEF TypeOK

\* The identifiers of browsers.
LEMMA BrowserIds ==
    ASSUME TypeOK
    PROVE  /\ browsers \subseteq Browser
           /\ \A b \in browsers : b \in 0 .. MaxBrowsers /\ b # 0 /\ b <= lastId
           /\ NewId \notin browsers
BY CefAssumption DEF TypeOK, CefTypeOK, Browser, NewId

\* What a message to a browser does to the messages under way.
LEMMA SentType ==
    ASSUME TypeOK, NEW b \in Browser
    PROVE  /\ \A call \in Call : SendCall(b, call) => toRenderer' \in [Browser -> Seq(Call)]
           /\ \A n \in Name : SendToBrowser(b, n) => toBrowser' \in [Browser -> Seq(Name)]
<1>1. /\ toRenderer[b] \in Seq(Call) /\ toRenderer \in [Browser -> Seq(Call)]
      /\ toBrowser[b] \in Seq(Name) /\ toBrowser \in [Browser -> Seq(Name)]
  BY DEF TypeOK, CefTypeOK
<1>2. ASSUME NEW call \in Call, SendCall(b, call)
      PROVE  toRenderer' \in [Browser -> Seq(Call)]
  <2>1. Append(toRenderer[b], call) \in Seq(Call)
    BY <1>1, AppendProperties
  <2> QED
    BY <1>1, <1>2, <2>1 DEF SendCall
<1>3. ASSUME NEW n \in Name, SendToBrowser(b, n)
      PROVE  toBrowser' \in [Browser -> Seq(Name)]
  <2>1. Append(toBrowser[b], n) \in Seq(Name)
    BY <1>1, AppendProperties
  <2> QED
    BY <1>1, <1>3, <2>1 DEF SendToBrowser
<1> QED
  BY <1>2, <1>3

LEMMA ScriptsType ==
    ASSUME TypeOK, Scripts, UNCHANGED handlerVars
    PROVE  TypeOK'
<1> USE DEF TypeOK
<1>1. HandlerTypeOK'
  BY DEF HandlerTypeOK, handlerVars, mapState
<1>2. PICK c \in Ctx : \/ OnContextCreated(c) \/ OnContextReleased(c)
                       \/ \E n \in Name : registerJavascriptFunction(c, n)
                                          \/ sendMessage(c, n)
  BY DEF Scripts
<1>3. CASE OnContextCreated(c)
  <2>1. home' \in [Ctx -> 0 .. MaxBrowsers]
    BY <1>3, BrowserIds DEF OnContextCreated, BridgeTypeOK
  <2> QED
    BY <1>1, <1>3, <2>1 DEF OnContextCreated, BridgeTypeOK, CefTypeOK, cefVars
<1>4. CASE OnContextReleased(c)
  <2>1. home' \in [Ctx -> 0 .. MaxBrowsers]
    BY <1>4, CefAssumption DEF OnContextReleased, BridgeTypeOK, Gone
  <2>2. callback_map' \in [Name \X Browser -> Ctx \cup {NoCtx}]
    BY <1>4 DEF OnContextReleased, BridgeTypeOK, Erased
  <2> QED
    BY <1>1, <1>4, <2>1, <2>2 DEF OnContextReleased, BridgeTypeOK, CefTypeOK, cefVars
<1>5. ASSUME NEW n \in Name, registerJavascriptFunction(c, n) PROVE TypeOK'
  <2>1. callback_map' \in [Name \X Browser -> Ctx \cup {NoCtx}]
    BY <1>5 DEF registerJavascriptFunction, BridgeTypeOK
  <2> QED
    BY <1>1, <1>5, <2>1 DEF registerJavascriptFunction, BridgeTypeOK, CefTypeOK, cefVars
<1>6. ASSUME NEW n \in Name, sendMessage(c, n) PROVE TypeOK'
  <2>1. messages' \in 0 .. MaxMessages
    BY <1>6, JsBridgeAssumption DEF sendMessage, BridgeTypeOK
  <2>2. home[c] \in Browser
    BY <1>6, BrowserIds DEF sendMessage
  <2>3. toBrowser' \in [Browser -> Seq(Name)]
    BY <1>6, <2>2, SentType DEF sendMessage
  <2> QED
    BY <1>1, <1>6, <2>1, <2>3 DEF sendMessage, BridgeTypeOK, CefTypeOK
<1> QED
  BY <1>2, <1>3, <1>4, <1>5, <1>6

\* The call that CallJsFunction takes, and what it leaves.
LEMMA TakenCall ==
    ASSUME TypeOK, NEW b \in Browser, TakesCall(b)
    PROVE  /\ Head(toRenderer[b]) \in Call
           /\ Head(toRenderer[b]).no \in CallNo /\ Head(toRenderer[b]).name \in Name
           /\ toRenderer' \in [Browser -> Seq(Call)]
           /\ Function(b) \in Ctx \cup {NoCtx}
<1>1. toRenderer[b] \in Seq(Call) /\ toRenderer[b] # <<>>
  BY DEF TypeOK, CefTypeOK, TakesCall
<1>2. Head(toRenderer[b]) \in Call /\ Tail(toRenderer[b]) \in Seq(Call)
  BY <1>1, HeadTailProperties
<1>3. Head(toRenderer[b]).no \in CallNo /\ Head(toRenderer[b]).name \in Name
  BY <1>2 DEF Call
<1>4. toRenderer' \in [Browser -> Seq(Call)]
  BY <1>2 DEF TypeOK, CefTypeOK, TakesCall
<1>5. Function(b) \in Ctx \cup {NoCtx}
  BY <1>3 DEF TypeOK, BridgeTypeOK, Function
<1> QED
  BY <1>2, <1>3, <1>4, <1>5

LEMMA RendererType ==
    ASSUME TypeOK, EnterExitPaired, Renderer, UNCHANGED handlerVars
    PROVE  TypeOK'
<1> USE DEF TypeOK
<1>1. HandlerTypeOK'
  BY DEF HandlerTypeOK, handlerVars, mapState
<1>2. ASSUME NEW b \in Browser, CallJsFunction(b) PROVE TypeOK'
  <2>1. TakesCall(b) /\ Function(b) \in Ctx
    BY <1>2, TakenCall DEF CallJsFunction
  <2>2. entered' \in Seq(Ctx)
    BY <1>2, <2>1, AppendProperties DEF CallJsFunction, BridgeTypeOK
  <2>3. [no |-> Head(toRenderer[b]).no, browser |-> b] \in [no : CallNo, browser : Browser]
    BY <2>1, TakenCall
  <2>4. ran' \in Seq([no : CallNo, browser : Browser])
    BY <1>2, <2>3, AppendProperties DEF CallJsFunction, BridgeTypeOK
  <2>5. running' \in [ctx : Ctx \cup {NoCtx}, no : 0 .. MaxCalls]
    BY <1>2, <2>1, TakenCall, CefAssumption DEF CallJsFunction, CallNo
  <2>6. CefTypeOK'
    BY <1>2, <2>1, TakenCall DEF CallJsFunction, CefTypeOK
  <2> QED
    BY <1>1, <1>2, <2>2, <2>4, <2>5, <2>6 DEF CallJsFunction, BridgeTypeOK
<1>3. ASSUME NEW b \in Browser, CallNotHandled(b) PROVE TypeOK'
  <2>1. TakesCall(b)
    BY <1>3 DEF CallNotHandled
  <2>2. CefTypeOK'
    BY <1>3, <2>1, TakenCall DEF CallNotHandled, CefTypeOK
  <2>3. unhandled' \subseteq CallNo
    BY <1>3, <2>1, TakenCall DEF CallNotHandled, BridgeTypeOK
  <2> QED
    BY <1>1, <1>3, <2>2, <2>3 DEF CallNotHandled, BridgeTypeOK
<1>4. CASE CallReturns
  <2>1. entered = <<running.ctx>>
    BY <1>4 DEF CallReturns, EnterExitPaired
  <2>2. entered' = <<>>
    BY <1>4, <2>1 DEF CallReturns, Exits
  <2>3. running' \in [ctx : Ctx \cup {NoCtx}, no : 0 .. MaxCalls]
    BY <1>4, CefAssumption DEF CallReturns, Idle
  <2>4. <<>> \in Seq(Ctx)
    OBVIOUS
  <2> QED
    BY <1>1, <1>4, <2>2, <2>3, <2>4 DEF CallReturns, BridgeTypeOK, CefTypeOK, cefVars
<1> QED
  BY <1>2, <1>3, <1>4 DEF Renderer
-----------------------------------------------------------------------------
(* Types: the browser process.                                             *)

\* A task of the UI thread that is taken, and what is behind it.
LEMMA TakenTask ==
    ASSUME HandlerTypeOK, NEW op, NEW r \in Requester, NEW w \in Wnd,
           Takes(op, r, w)
    PROVE  /\ ui' \in Seq(UiTask)
           /\ op = "callJs" => Head(ui).call \in Call
<1>1. Head(ui) \in UiTask /\ Tail(ui) \in Seq(UiTask)
  BY HeadTailProperties DEF HandlerTypeOK, Takes
<1>2. \A x \in UiTask : x.op = "callJs" => x.call \in Call
  BY DEF UiTask
<1> QED
  BY <1>1, <1>2 DEF Takes

\* The bounds stay in their range.
LEMMA SpendType ==
    ASSUME HandlerTypeOK, NEW what \in {"load", "fault"}, Has(what), Spend(what)
    PROVE  budget' \in [{"load", "fault"} -> Nat]
BY DEF HandlerTypeOK, Has, Spend

\* The state of handles that are opened and destroyed.
LEMMA ConnType ==
    ASSUME HandlerTypeOK, NEW S
    PROVE  Opened(S) \in [Inst -> ConnState] /\ Destroyed(S) \in [Inst -> ConnState]
BY DEF HandlerTypeOK, Opened, Destroyed, ConnState

LEMMA UsersType ==
    ASSUME TypeOK, Users, UNCHANGED bridgeVars
    PROVE  TypeOK'
<1> USE DEF TypeOK, HandlerTypeOK
<1>1. BridgeTypeOK'
  BY DEF BridgeTypeOK, bridgeVars
<1>2. ASSUME NEW r \in Requester, NEW w \in Wnd, Load(r, w) PROVE TypeOK'
  <2>1. [op |-> "load", wnd |-> w, from |-> r] \in UiTask
    BY DEF UiTask
  <2>2. ui' \in Seq(UiTask)
    BY <1>2, <2>1, AppendProperties DEF Load
  <2>3. budget' \in [{"load", "fault"} -> Nat]
    BY <1>2, SpendType DEF Load
  <2> QED
    BY <1>1, <1>2, <2>2, <2>3 DEF Load, mapState, cefVars, CefTypeOK
<1>3. ASSUME NEW r \in Requester, NEW w \in Wnd, NEW n \in Name, CallJs(r, w, n)
      PROVE  TypeOK'
  <2>1. posted' \in CallNo /\ posted' \in 0 .. MaxCalls
    BY <1>3, CefAssumption DEF CallJs, CallNo
  <2>2. [op |-> "callJs", wnd |-> w, from |-> r,
         call |-> [no |-> posted', name |-> n]] \in UiTask
    BY <2>1 DEF UiTask, Call
  <2>3. ui' \in Seq(UiTask)
    BY <1>3, <2>2, AppendProperties DEF CallJs
  <2> QED
    BY <1>1, <1>3, <2>1, <2>3 DEF CallJs, mapState, cefVars, CefTypeOK
<1>4. ASSUME NEW r \in Requester, RequesterStops(r) PROVE TypeOK'
  <2>1. conn' \in [Inst -> ConnState]
    BY <1>4 DEF RequesterStops, ConnState
  <2>2. budget' \in [{"load", "fault"} -> Nat]
    BY <1>4, SpendType DEF RequesterStops
  <2> QED
    BY <1>1, <1>4, <2>1, <2>2 DEF RequesterStops, cefVars, CefTypeOK
<1>5. ASSUME NEW r \in Requester, RequesterListens(r) PROVE TypeOK'
  BY <1>1, <1>5 DEF RequesterListens, mapState, cefVars, CefTypeOK
<1> QED
  BY <1>2, <1>3, <1>4, <1>5 DEF Users

\* A browser that is created.
LEMMA CreatedType ==
    ASSUME TypeOK, CreateBrowser, UNCHANGED <<toRenderer, toBrowser>>
    PROVE  NewId \in Browser /\ CefTypeOK'
<1> USE DEF TypeOK, CefTypeOK
<1>1. NewId \in Browser /\ lastId' = NewId /\ browsers' = browsers \cup {NewId}
  BY CefAssumption DEF CreateBrowser, NewId, Browser
<1>2. lastId' \in 0 .. MaxBrowsers /\ browsers' \subseteq 1 .. lastId'
  BY <1>1, CefAssumption DEF Browser, NewId
<1> QED
  BY <1>1, <1>2

LEMMA LoadType ==
    ASSUME TypeOK, UNCHANGED bridgeVars, NEW r \in Requester, NEW w \in Wnd,
           \/ LoadAgain(r, w) \/ LoadNotConnected(r, w)
           \/ LoadNoBrowser(r, w) \/ LoadBrowser(r, w)
    PROVE  TypeOK'
<1> USE DEF TypeOK, HandlerTypeOK
<1>1. BridgeTypeOK'
  BY DEF BridgeTypeOK, bridgeVars
<1>2. CASE LoadAgain(r, w) \/ LoadNotConnected(r, w)
  <2>1. ui' \in Seq(UiTask)
    BY <1>2, TakenTask DEF LoadAgain, LoadNotConnected
  <2>2. budget' \in [{"load", "fault"} -> Nat]
    BY <1>2, SpendType DEF LoadAgain, LoadNotConnected
  <2> QED
    BY <1>1, <1>2, <2>1, <2>2 DEF LoadAgain, LoadNotConnected, mapState, cefVars,
                                  CefTypeOK
<1>3. CASE LoadNoBrowser(r, w)
  <2>1. ui' \in Seq(UiTask)
    BY <1>3, TakenTask DEF LoadNoBrowser
  <2>2. PICK i \in Inst : /\ conn' = Opened({i}) /\ dest' = [dest EXCEPT ![i] = r]
                          /\ orphans' = orphans \cup {i}
    BY <1>3 DEF LoadNoBrowser, Connects, Fresh
  <2>3. conn' \in [Inst -> ConnState]
    BY <2>2, ConnType
  <2>4. budget' \in [{"load", "fault"} -> Nat]
    BY <1>3, SpendType DEF LoadNoBrowser
  <2> QED
    BY <1>1, <1>3, <2>1, <2>2, <2>3, <2>4 DEF LoadNoBrowser, cefVars, CefTypeOK
<1>4. CASE LoadBrowser(r, w)
  <2>1. ui' \in Seq(UiTask)
    BY <1>4, TakenTask DEF LoadBrowser
  <2>2. PICK i \in Inst :
          /\ conn' = Opened({i}) /\ dest' = [dest EXCEPT ![i] = r]
          /\ browser_map' = insert(w, [inst |-> i, browser |-> NewId])
    BY <1>4 DEF LoadBrowser, Connects, Fresh
  <2>3. conn' \in [Inst -> ConnState]
    BY <2>2, ConnType
  <2>4. NewId \in Browser /\ CefTypeOK'
    BY <1>4, CreatedType DEF LoadBrowser
  <2>5. [inst |-> i, browser |-> NewId] \in Entry
    BY <2>4 DEF Entry
  <2>6. browser_map' \in [Wnd -> Entry \cup {NoEntry}]
    BY <2>2, <2>5 DEF insert
  <2>7. dest' \in [Inst -> Requester \cup {NULL}]
    BY <2>2
  <2>8. creator' \in [Browser -> Requester \cup {NULL}]
    BY <1>4, <2>4 DEF LoadBrowser
  <2> QED
    BY <1>1, <1>4, <2>1, <2>3, <2>4, <2>6, <2>7, <2>8 DEF LoadBrowser
<1> QED
  BY <1>2, <1>3, <1>4

LEMMA CallJsType ==
    ASSUME TypeOK, UNCHANGED bridgeVars, NEW r \in Requester, NEW w \in Wnd,
           callJs(r, w) \/ callJsDropped(r, w)
    PROVE  TypeOK'
<1> USE DEF TypeOK, HandlerTypeOK
<1>1. BridgeTypeOK'
  BY DEF BridgeTypeOK, bridgeVars
<1>2. ui' \in Seq(UiTask) /\ Head(ui).call \in Call
  BY TakenTask DEF callJs, callJsDropped
<1>3. CASE callJs(r, w)
  <2>1. browser_map[w].browser \in Browser
    BY <1>3 DEF callJs, Entry
  <2>2. toRenderer' \in [Browser -> Seq(Call)]
    BY <1>2, <1>3, <2>1, SentType DEF callJs
  <2> QED
    BY <1>1, <1>2, <1>3, <2>2 DEF callJs, mapState, CefTypeOK
<1>4. CASE callJsDropped(r, w)
  <2>1. Head(ui).call.no \in CallNo
    BY <1>2 DEF Call
  <2> QED
    BY <1>1, <1>2, <1>4, <2>1 DEF callJsDropped, mapState, cefVars, CefTypeOK
<1> QED
  BY <1>3, <1>4

\* The entry of a window that shows the browser b.
LEMMA EntryOf ==
    ASSUME TypeOK, NEW w \in Loaded
    PROVE  /\ w \in Wnd /\ browser_map[w] \in Entry
           /\ browser_map[w].inst \in Inst /\ browser_map[w].browser \in Browser
BY DEF TypeOK, HandlerTypeOK, Loaded, Entry


\* Every orphaned handle is held too.
HandlesInv == HandlesRecorded /\ \A i \in orphans : Held(i)

\* Every browser there ever was has a creator, and only these were heard.
HeardInv ==
    /\ HeardByLoader
    /\ \A b \in 1 .. lastId : creator[b] \in Requester
    /\ \A x \in heard : x[2] \in 1 .. lastId

\* Every popup has got an identifier, so a new browser is none of them yet.
PopupsInv == popups \subseteq 1 .. lastId

MapInv == HandlesInv /\ BrowsersRecorded /\ PopupsInv /\ HeardInv

LEMMA CallbacksType ==
    ASSUME TypeOK, BrowsersRecorded, HeardInv, UNCHANGED bridgeVars, Callbacks
    PROVE  TypeOK'
<1> USE DEF TypeOK, HandlerTypeOK
<1>1. BridgeTypeOK'
  BY DEF BridgeTypeOK, bridgeVars
<1>2. ASSUME NEW b \in Browser, OnBeforeClose(b) PROVE TypeOK'
  <2>1. conn' \in [Inst -> ConnState]
    BY <1>2, ConnType DEF OnBeforeClose, DestroyFor
  <2>2. browser_map' \in [Wnd -> Entry \cup {NoEntry}]
    BY <1>2 DEF OnBeforeClose, Erase
  <2>3. CefTypeOK'
    BY <1>2 DEF OnBeforeClose, CefTypeOK
  <2> QED
    BY <1>1, <1>2, <2>1, <2>2, <2>3 DEF OnBeforeClose
<1>3. ASSUME NEW b \in Browser, notifyMsg(b) PROVE TypeOK'
  <2>1. toBrowser' \in [Browser -> Seq(Name)]
    <3>1. toBrowser[b] \in Seq(Name) /\ toBrowser[b] # <<>>
      BY <1>3 DEF notifyMsg, CefTypeOK
    <3>2. Tail(toBrowser[b]) \in Seq(Name)
      BY <3>1, HeadTailProperties
    <3> QED
      BY <1>3, <3>2 DEF notifyMsg, CefTypeOK
  <2>2. ASSUME NEW w \in WndsOf(b)
        PROVE  dest[browser_map[w].inst] \in Requester
    <3>1. w \in Loaded
      BY DEF WndsOf, Loaded
    <3>2. browser_map[w].browser \in 1 .. lastId
      BY <3>1 DEF BrowsersRecorded, CefTypeOK
    <3> QED
      BY <3>1, <3>2 DEF HeardInv, HeardByLoader
  <2>3. heard' \subseteq Requester \X Browser
    BY <1>3, <2>2 DEF notifyMsg
  <2>4. CefTypeOK'
    BY <1>3, <2>1 DEF notifyMsg, CefTypeOK
  <2> QED
    BY <1>1, <1>3, <2>3, <2>4 DEF notifyMsg, mapState
<1>4. ASSUME NEW b \in Browser, OnBeforePopup(b) PROVE TypeOK'
  <2>1. NewId \in Browser /\ CefTypeOK'
    BY <1>4, CreatedType DEF OnBeforePopup
  <2>2. popups' \subseteq Browser
    BY <1>4, <2>1 DEF OnBeforePopup
  <2>3. creator' \in [Browser -> Requester \cup {NULL}]
    BY <1>4, <2>1 DEF OnBeforePopup
  <2> QED
    BY <1>1, <1>4, <2>1, <2>2, <2>3 DEF OnBeforePopup
<1> QED
  BY <1>2, <1>3, <1>4 DEF Callbacks

-----------------------------------------------------------------------------
(* Windows, browsers and connections.                                      *)

LEMMA InitMap == Init => MapInv
<1> SUFFICES ASSUME Init PROVE MapInv
  OBVIOUS
<1> USE DEF MapInv
<1>1. /\ Loaded = {} /\ browsers = {} /\ heard = {} /\ lastId = 0 /\ orphans = {}
      /\ popups = {}
  BY DEF Init, CefInit, HandlerInit, Loaded
<1>2. \A i \in Inst : ~Held(i)
  BY DEF Init, HandlerInit, Held
<1> QED
  BY <1>1, <1>2 DEF HandlesInv, HandlesRecorded, BrowsersRecorded, PopupsInv, HeardInv,
                     HeardByLoader

\* A step that does not touch them.
LEMMA SameMap ==
    ASSUME MapInv,
           UNCHANGED mapState, UNCHANGED <<heard, browsers, lastId>>
    PROVE  MapInv'
<1> USE DEF MapInv
<1>1. Loaded' = Loaded
  BY DEF mapState, Loaded
<1>2. \A i \in Inst : Held(i)' = Held(i)
  BY DEF mapState, Held
<1>3. HandlesInv'
  BY <1>1 DEF mapState, HandlesInv, HandlesRecorded, Held
<1>4. BrowsersRecorded' /\ PopupsInv'
  BY <1>1 DEF mapState, BrowsersRecorded, PopupsInv
<1>5. HeardInv'
  BY <1>1 DEF mapState, HeardInv, HeardByLoader
<1> QED
  BY <1>3, <1>4, <1>5

\* A requester that stops leaves its connections to be destroyed.
LEMMA StopsMap ==
    ASSUME TypeOK, MapInv,
           NEW r \in Requester, RequesterStops(r)
    PROVE  MapInv'
<1> USE DEF MapInv
<1>0. orphans \subseteq Inst
  BY DEF TypeOK, HandlerTypeOK
<1>1. Loaded' = Loaded
  BY DEF RequesterStops, Loaded
<1>2. \A i \in Inst : Held(i)' <=> Held(i)
  BY DEF RequesterStops, Held
<1>3. \A w \in Loaded : browser_map[w].inst \in Inst
  BY EntryOf
<1>4. HandlesInv'
  BY <1>0, <1>1, <1>2, <1>3 DEF RequesterStops, HandlesInv, HandlesRecorded
<1>5. BrowsersRecorded' /\ PopupsInv'
  BY <1>1 DEF RequesterStops, BrowsersRecorded, PopupsInv, cefVars
<1>6. HeardInv'
  BY <1>1 DEF RequesterStops, HeardInv, HeardByLoader, cefVars
<1> QED
  BY <1>4, <1>5, <1>6

\* A handle that is opened was held by nobody.
LEMMA OpenedHandle ==
    ASSUME TypeOK, NEW r, NEW i \in Connects(r), conn' = Opened({i})
    PROVE  /\ i \in Inst /\ ~Held(i)
           /\ \A j \in Inst : Held(j)' <=> (Held(j) \/ j = i)
<1>1. i \in Inst /\ ~Held(i)
  BY DEF Connects, Fresh, Held
<1>2. \A j \in Inst : Held(j)' <=> (Held(j) \/ j = i)
  BY DEF Opened, Held
<1> QED
  BY <1>1, <1>2

LEMMA NoBrowserMap ==
    ASSUME TypeOK, MapInv,
           NEW r \in Requester, NEW w \in Wnd, LoadNoBrowser(r, w)
    PROVE  MapInv'
<1> USE DEF MapInv
<1>0. orphans \subseteq Inst
  BY DEF TypeOK, HandlerTypeOK
<1>1. PICK i \in Connects(r) : /\ conn' = Opened({i}) /\ dest' = [dest EXCEPT ![i] = r]
                               /\ orphans' = orphans \cup {i}
  BY DEF LoadNoBrowser
<1>2. i \in Inst /\ ~Held(i) /\ \A j \in Inst : Held(j)' <=> (Held(j) \/ j = i)
  BY <1>1, OpenedHandle
<1>3. Loaded' = Loaded
  BY DEF LoadNoBrowser, Loaded
<1>4. \A v \in Loaded : browser_map[v].inst \in Inst /\ browser_map[v].inst # i
  BY <1>2, EntryOf DEF HandlesInv, HandlesRecorded
<1>5. HandlesInv'
  BY <1>0, <1>1, <1>2, <1>3, <1>4 DEF LoadNoBrowser, HandlesInv, HandlesRecorded
<1>6. BrowsersRecorded' /\ PopupsInv'
  BY <1>3 DEF LoadNoBrowser, BrowsersRecorded, PopupsInv, cefVars
<1>7. HeardInv'
  <2>1. \A v \in Loaded : dest'[browser_map[v].inst] = dest[browser_map[v].inst]
    BY <1>1, <1>4 DEF TypeOK, HandlerTypeOK
  <2> QED
    BY <1>3, <2>1 DEF LoadNoBrowser, HeardInv, HeardByLoader, cefVars
<1> QED
  BY <1>5, <1>6, <1>7

LEMMA LoadMap ==
    ASSUME TypeOK, MapInv,
           NEW r \in Requester, NEW w \in Wnd, LoadBrowser(r, w)
    PROVE  MapInv'
<1> USE DEF MapInv
<1>0. orphans \subseteq Inst
  BY DEF TypeOK, HandlerTypeOK
<1>1. PICK i \in Connects(r) :
        /\ conn' = Opened({i}) /\ dest' = [dest EXCEPT ![i] = r]
        /\ browser_map' = insert(w, [inst |-> i, browser |-> NewId])
  BY DEF LoadBrowser
<1>2. i \in Inst /\ ~Held(i) /\ \A j \in Inst : Held(j)' <=> (Held(j) \/ j = i)
  BY <1>1, OpenedHandle
<1>3. /\ NewId \in Browser /\ NewId = lastId + 1 /\ lastId \in Nat
      /\ lastId' = NewId /\ browsers' = browsers \cup {NewId}
      /\ \A b \in browsers : b # NewId /\ b \in 1 .. lastId
  BY CefAssumption DEF LoadBrowser, CreateBrowser, NewId, Browser, TypeOK, CefTypeOK
<1>4. browser_map[w] = NoEntry /\ w \notin Loaded
  BY DEF LoadBrowser, Find, Loaded
<1>5. /\ browser_map'[w] = [inst |-> i, browser |-> NewId]
      /\ \A v \in Loaded : browser_map'[v] = browser_map[v] /\ v # w
  BY <1>1, <1>4 DEF insert, Loaded, TypeOK, HandlerTypeOK
<1>6. Loaded' = Loaded \cup {w}
  <2>1. [inst |-> i, browser |-> NewId] # NoEntry
    BY <1>2, <1>3, ClientHandlerAssumption
  <2>2. \A v \in Wnd : v # w => browser_map'[v] = browser_map[v]
    BY <1>1 DEF insert, TypeOK, HandlerTypeOK
  <2> QED
    BY <1>5, <2>1, <2>2 DEF Loaded
<1>7. \A v \in Loaded : /\ browser_map[v].inst \in Inst /\ browser_map[v].inst # i
                        /\ browser_map[v].browser \in 1 .. lastId
                        /\ browser_map[v].browser # NewId
  BY <1>2, <1>3, EntryOf DEF HandlesInv, HandlesRecorded, BrowsersRecorded
<1>8. orphans' = orphans /\ heard' = heard /\ i \notin orphans'
  <2>1. i \notin orphans
    BY <1>2 DEF HandlesInv
  <2> QED
    BY <2>1 DEF LoadBrowser
<1>9. HandlesInv'
  BY <1>0, <1>1, <1>2, <1>5, <1>6, <1>7, <1>8 DEF HandlesInv, HandlesRecorded
<1>10. BrowsersRecorded' /\ PopupsInv'
  <2>1. popups' = popups /\ popups \subseteq 1 .. lastId /\ popups \subseteq 1 .. lastId'
        /\ NewId \notin popups
    BY <1>3 DEF LoadBrowser, PopupsInv
  <2>2. browsers' \ popups' = (browsers \ popups) \cup {NewId}
    BY <1>3, <2>1
  <2>3. {browser_map'[v].browser : v \in Loaded'}
          = {browser_map[v].browser : v \in Loaded} \cup {NewId}
    BY <1>5, <1>6
  <2> QED
    BY <1>5, <1>6, <1>7, <2>1, <2>2, <2>3 DEF BrowsersRecorded, PopupsInv
<1>11. HeardInv'
  <2>1. /\ \A v \in Loaded : dest'[browser_map[v].inst] = dest[browser_map[v].inst]
        /\ dest'[i] = r
    BY <1>1, <1>2, <1>7 DEF TypeOK, HandlerTypeOK
  <2>2. /\ \A b \in 1 .. lastId : creator'[b] = creator[b]
        /\ creator'[NewId] = r
    BY <1>3 DEF LoadBrowser, TypeOK, HandlerTypeOK
  <2>3. 1 .. lastId' = (1 .. lastId) \cup {NewId}
    BY <1>3
  <2> QED
    BY <1>3, <1>5, <1>6, <1>7, <1>8, <2>1, <2>2, <2>3 DEF HeardInv, HeardByLoader
<1> QED
  BY <1>9, <1>10, <1>11

\* The window of a browser of load is closed.
LEMMA CloseWindowMap ==
    ASSUME TypeOK, MapInv, NEW b \in Browser, OnBeforeClose(b), b \notin popups
    PROVE  MapInv'
<1> USE DEF MapInv
<1>1. PICK w \in Loaded : browser_map[w].browser = b
  BY DEF OnBeforeClose, BrowsersRecorded
<1>2. WndsOf(b) = {w}
  BY <1>1 DEF WndsOf, Loaded, BrowsersRecorded
<1>3. Loaded' = Loaded \ {w} /\ \A v \in Loaded' : browser_map'[v] = browser_map[v]
  BY <1>2 DEF OnBeforeClose, Erase, Loaded
<1>4. /\ browser_map[w].inst \in Inst /\ Held(browser_map[w].inst)
      /\ browser_map[w].inst \notin orphans
      /\ \A v \in Loaded' : browser_map[v].inst \in Inst
                            /\ browser_map[v].inst # browser_map[w].inst
  BY <1>3, EntryOf DEF HandlesInv, HandlesRecorded
<1>5. \A j \in Inst : Held(j)' <=> (Held(j) /\ j # browser_map[w].inst)
  BY <1>2, <1>4 DEF OnBeforeClose, DestroyFor, Destroyed, Held
<1>6. orphans' = orphans /\ orphans \subseteq Inst
  BY DEF OnBeforeClose, TypeOK, HandlerTypeOK
<1>7. HandlesInv'
  BY <1>3, <1>4, <1>5, <1>6 DEF HandlesInv, HandlesRecorded
<1>8. BrowsersRecorded' /\ PopupsInv'
  BY <1>1, <1>3 DEF OnBeforeClose, BrowsersRecorded, PopupsInv
<1>9. HeardInv'
  BY <1>3 DEF OnBeforeClose, HeardInv, HeardByLoader
<1> QED
  BY <1>7, <1>8, <1>9

\* A popup is closed: no window has it.
LEMMA ClosePopupMap ==
    ASSUME TypeOK, MapInv, NEW b \in Browser, OnBeforeClose(b), b \in popups
    PROVE  MapInv'
<1> USE DEF MapInv
<1>1. WndsOf(b) = {}
  BY DEF WndsOf, Loaded, BrowsersRecorded
<1>2. browser_map' = browser_map
  BY <1>1 DEF OnBeforeClose, Erase, TypeOK, HandlerTypeOK
<1>3. conn' = conn
  BY <1>1 DEF OnBeforeClose, DestroyFor, Destroyed, TypeOK, HandlerTypeOK
<1>4. Loaded' = Loaded
  BY <1>2 DEF Loaded
<1>5. HandlesInv'
  BY <1>2, <1>3, <1>4 DEF OnBeforeClose, HandlesInv, HandlesRecorded, Held
<1>6. BrowsersRecorded' /\ PopupsInv'
  BY <1>2, <1>4 DEF OnBeforeClose, BrowsersRecorded, PopupsInv
<1>7. HeardInv'
  BY <1>2, <1>4 DEF OnBeforeClose, HeardInv, HeardByLoader
<1> QED
  BY <1>5, <1>6, <1>7

\* A popup is opened: it belongs to whom its opener belongs to.
LEMMA PopupMap ==
    ASSUME TypeOK, MapInv, NEW b \in Browser, OnBeforePopup(b)
    PROVE  MapInv'
<1> USE DEF MapInv
<1>1. /\ NewId = lastId + 1 /\ lastId \in Nat /\ NewId \in Browser
      /\ lastId' = NewId /\ browsers' = browsers \cup {NewId}
      /\ b \in 1 .. lastId /\ NewId \notin browsers
      /\ browsers \subseteq 1 .. lastId
  BY CefAssumption DEF OnBeforePopup, CreateBrowser, NewId, Browser, TypeOK, CefTypeOK
<1>2. Loaded' = Loaded
  BY DEF OnBeforePopup, Loaded
<1>3. HandlesInv'
  BY <1>2 DEF OnBeforePopup, HandlesInv, HandlesRecorded, Held
<1>4. popups' = popups \cup {NewId} /\ PopupsInv'
  BY <1>1 DEF OnBeforePopup, PopupsInv
<1>5. BrowsersRecorded'
  <2>1. browsers' \ popups' = browsers \ popups
    BY <1>1, <1>4
  <2> QED
    BY <1>2, <2>1 DEF OnBeforePopup, BrowsersRecorded
<1>6. /\ \A d \in 1 .. lastId : creator'[d] = creator[d]
      /\ creator'[NewId] = creator[b]
      /\ 1 .. lastId' = (1 .. lastId) \cup {NewId}
  BY <1>1 DEF OnBeforePopup, TypeOK, HandlerTypeOK
<1>7. HeardInv'
  <2>1. \A w \in Loaded : browser_map[w].browser \in 1 .. lastId
    BY <1>1 DEF BrowsersRecorded
  <2>2. creator[b] \in Requester
    BY <1>1 DEF HeardInv
  <2> QED
    BY <1>2, <1>6, <2>1, <2>2 DEF OnBeforePopup, HeardInv, HeardByLoader
<1> QED
  BY <1>3, <1>4, <1>5, <1>7

LEMMA NotifyMap ==
    ASSUME TypeOK, MapInv, NEW b \in Browser, notifyMsg(b)
    PROVE  MapInv'
<1> USE DEF MapInv
<1>1. UNCHANGED mapState /\ UNCHANGED <<browsers, lastId>>
  BY DEF notifyMsg
<1>2. ASSUME NEW x \in heard', x \notin heard
      PROVE  x[1] = creator[x[2]] /\ x[2] \in 1 .. lastId
  <2>1. PICK w \in WndsOf(b) : x = <<dest[browser_map[w].inst], b>>
    BY <1>2 DEF notifyMsg
  <2>2. w \in Loaded /\ browser_map[w].browser = b
    BY <2>1 DEF WndsOf, Loaded
  <2>3. b \in browsers
    BY <2>2 DEF BrowsersRecorded
  <2> QED
    BY <2>1, <2>2, <2>3 DEF HeardInv, HeardByLoader, TypeOK, CefTypeOK
<1>3. Loaded' = Loaded
  BY <1>1 DEF mapState, Loaded
<1>4. HandlesInv'
  BY <1>1, <1>3 DEF mapState, HandlesInv, HandlesRecorded, Held
<1>5. BrowsersRecorded' /\ PopupsInv'
  BY <1>1, <1>3 DEF mapState, BrowsersRecorded, PopupsInv
<1>6. HeardInv'
  BY <1>1, <1>2, <1>3 DEF mapState, HeardInv, HeardByLoader
<1> QED
  BY <1>4, <1>5, <1>6

LEMMA HandlerMap ==
    ASSUME TypeOK, MapInv, HandlerNext
    PROVE  MapInv'
<1>1. ASSUME UNCHANGED mapState, UNCHANGED <<heard, browsers, lastId>> PROVE MapInv'
  BY <1>1, SameMap
<1>2. ASSUME NEW r \in Requester, NEW w \in Wnd,
             \/ LoadAgain(r, w) \/ LoadNotConnected(r, w)
             \/ LoadNoBrowser(r, w) \/ LoadBrowser(r, w)
             \/ callJs(r, w) \/ callJsDropped(r, w)
      PROVE  MapInv'
  <2>1. CASE LoadAgain(r, w) \/ LoadNotConnected(r, w)
    BY <1>1, <2>1 DEF LoadAgain, LoadNotConnected, cefVars
  <2>2. CASE callJs(r, w) \/ callJsDropped(r, w)
    BY <1>1, <2>2 DEF callJs, callJsDropped, cefVars
  <2> QED
    BY <1>2, <2>1, <2>2, NoBrowserMap, LoadMap
<1>3. ASSUME NEW r \in Requester, NEW w \in Wnd, Load(r, w) PROVE MapInv'
  BY <1>1, <1>3 DEF Load, cefVars
<1>4. ASSUME NEW r \in Requester, NEW w \in Wnd, NEW n \in Name, CallJs(r, w, n)
      PROVE  MapInv'
  BY <1>1, <1>4 DEF CallJs, cefVars
<1>5. ASSUME NEW r \in Requester, RequesterListens(r) PROVE MapInv'
  BY <1>1, <1>5 DEF RequesterListens, cefVars
<1> QED
  BY <1>2, <1>3, <1>4, <1>5, StopsMap, CloseWindowMap, ClosePopupMap,
     PopupMap, NotifyMap
     DEF HandlerNext, UiThread, Users, Callbacks

LEMMA BridgeMap ==
    ASSUME MapInv, BridgeNext, UNCHANGED handlerVars
    PROVE  MapInv'
<1>1. UNCHANGED mapState /\ UNCHANGED heard
  BY DEF handlerVars
<1>2. UNCHANGED <<browsers, lastId>>
  BY DEF BridgeNext, Scripts, Renderer, OnContextCreated, OnContextReleased,
         registerJavascriptFunction, sendMessage, CallJsFunction, CallNotHandled,
         CallReturns, cefVars
<1> QED
  BY <1>1, <1>2, SameMap

-----------------------------------------------------------------------------
(* The functions of the pages.                                             *)

ScriptInv == CallbacksAlive /\ EnterExitPaired

LEMMA InitScript == Init => ScriptInv
BY DEF Init, BridgeInit, ScriptInv, CallbacksAlive, EnterExitPaired

LEMMA SameScript ==
    ASSUME ScriptInv, UNCHANGED bridgeVars
    PROVE  ScriptInv'
BY DEF ScriptInv, CallbacksAlive, EnterExitPaired, bridgeVars

LEMMA BridgeScript ==
    ASSUME TypeOK, ScriptInv, BridgeNext
    PROVE  ScriptInv'
<1> USE DEF ScriptInv
<1>1. /\ home \in [Ctx -> 0 .. MaxBrowsers]
      /\ callback_map \in [Name \X Browser -> Ctx \cup {NoCtx}]
  BY DEF TypeOK, BridgeTypeOK
<1>2. ASSUME NEW c \in Ctx, OnContextCreated(c) PROVE ScriptInv'
  <2>1. \A n \in Name, b \in Browser : callback_map[<<n, b>>] # c
    <3> SUFFICES ASSUME NEW n \in Name, NEW b \in Browser, callback_map[<<n, b>>] = c
                 PROVE  FALSE
      OBVIOUS
    <3>1. c # NoCtx
      BY JsBridgeAssumption
    <3>2. home[c] = b
      BY <3>1 DEF CallbacksAlive
    <3>3. b # 0
      BY CefAssumption DEF Browser
    <3> QED
      BY <1>2, <3>2, <3>3 DEF OnContextCreated, Gone
  <2>2. CallbacksAlive'
    BY <1>1, <1>2, <2>1 DEF OnContextCreated, CallbacksAlive
  <2> QED
    BY <1>2, <2>2 DEF OnContextCreated, EnterExitPaired
<1>3. ASSUME NEW c \in Ctx, OnContextReleased(c) PROVE ScriptInv'
  <2>1. CallbacksAlive'
    BY <1>1, <1>3 DEF OnContextReleased, Erased, CallbacksAlive
  <2> QED
    BY <1>3, <2>1 DEF OnContextReleased, EnterExitPaired
<1>4. ASSUME NEW c \in Ctx, NEW n \in Name, registerJavascriptFunction(c, n)
      PROVE  ScriptInv'
  <2>1. CallbacksAlive'
    BY <1>1, <1>4 DEF registerJavascriptFunction, CallbacksAlive
  <2> QED
    BY <1>4, <2>1 DEF registerJavascriptFunction, EnterExitPaired
<1>5. ASSUME NEW c \in Ctx, NEW n \in Name, sendMessage(c, n) PROVE ScriptInv'
  BY <1>5 DEF sendMessage, CallbacksAlive, EnterExitPaired
<1>6. ASSUME NEW b \in Browser, CallJsFunction(b) PROVE ScriptInv'
  <2>1. entered = <<>>
    BY <1>6 DEF CallJsFunction, TakesCall, EnterExitPaired
  <2>2. Function(b) \in Ctx /\ running' # Idle
    BY <1>6, TakenCall DEF CallJsFunction, Idle
  <2>3. EnterExitPaired'
    BY <1>6, <2>1, <2>2 DEF CallJsFunction, EnterExitPaired
  <2> QED
    BY <1>6, <2>3 DEF CallJsFunction, CallbacksAlive
<1>7. ASSUME NEW b \in Browser, CallNotHandled(b) PROVE ScriptInv'
  BY <1>7 DEF CallNotHandled, CallbacksAlive, EnterExitPaired
<1>8. CASE CallReturns
  <2>1. entered = <<running.ctx>>
    BY <1>8 DEF CallReturns, EnterExitPaired
  <2>2. entered' = <<>> /\ running' = Idle
    BY <1>8, <2>1 DEF CallReturns, Exits
  <2> QED
    BY <1>8, <2>2 DEF CallReturns, CallbacksAlive, EnterExitPaired
<1> QED
  BY <1>2, <1>3, <1>4, <1>5, <1>6, <1>7, <1>8 DEF BridgeNext, Scripts, Renderer

-----------------------------------------------------------------------------
\* What Engine keeps true.
EngineInv == TypeOK /\ MapInv /\ ScriptInv

LEMMA InitEngine == Init => EngineInv
BY InitType, InitMap, InitScript DEF EngineInv

LEMMA StepEngine == EngineInv /\ [Next]_vars => EngineInv'
<1> SUFFICES ASSUME EngineInv, [Next]_vars PROVE EngineInv'
  OBVIOUS
<1> USE DEF EngineInv
<1>1. CASE HandlerNext /\ UNCHANGED bridgeVars
  <2>1. TypeOK'
    BY <1>1, UsersType, LoadType, CallJsType, CallbacksType
       DEF HandlerNext, UiThread, MapInv
  <2> QED
    BY <1>1, <2>1, HandlerMap, SameScript
<1>2. CASE BridgeNext /\ UNCHANGED handlerVars
  <2>1. TypeOK'
    BY <1>2, ScriptsType, RendererType DEF BridgeNext, ScriptInv
  <2> QED
    BY <1>2, <2>1, BridgeMap, BridgeScript
<1>3. CASE UNCHANGED vars
  <2>1. UNCHANGED handlerVars /\ UNCHANGED bridgeVars /\ UNCHANGED cefVars
    BY <1>3 DEF vars
  <2>2. TypeOK'
    BY <2>1 DEF handlerVars, mapState, bridgeVars, cefVars, TypeOK, CefTypeOK,
                HandlerTypeOK, BridgeTypeOK
  <2>3. MapInv'
    BY <2>1, SameMap DEF handlerVars, cefVars
  <2> QED
    BY <2>1, <2>2, <2>3, SameScript
<1> QED
  BY <1>1, <1>2, <1>3 DEF Next

\* The invariant holds in every reachable state.
THEOREM EngineInvariant == Spec => []EngineInv
<1> QED
  BY InitEngine, StepEngine, PTL DEF Spec

\* Every variable keeps a value of its kind.
THEOREM TypeCorrect == Spec => []TypeOK
<1>1. EngineInv => TypeOK
  BY DEF EngineInv
<1> QED
  BY <1>1, EngineInvariant, PTL

\* The process holds one connection for each window, and no other but those of
\* loads that failed half way.
THEOREM HandlesAreRecorded == Spec => []HandlesRecorded
<1>1. EngineInv => HandlesRecorded
  BY DEF EngineInv, MapInv, HandlesInv
<1> QED
  BY <1>1, EngineInvariant, PTL

\* browser_map_ lists the browsers made by load that are open, each once, and
\* no popup: those that pages open have no entry.
THEOREM BrowsersAreRecorded == Spec => []BrowsersRecorded
<1>1. EngineInv => BrowsersRecorded
  BY DEF EngineInv, MapInv
<1> QED
  BY <1>1, EngineInvariant, PTL

\* A page is heard only by the process that loaded its window.
THEOREM OnlyLoaderHears == Spec => []HeardByLoader
<1>1. EngineInv => HeardByLoader
  BY DEF EngineInv, MapInv, HeardInv
<1> QED
  BY <1>1, EngineInvariant, PTL

\* No function of a released context is called.
THEOREM CallbacksStayAlive == Spec => []CallbacksAlive
<1>1. EngineInv => CallbacksAlive
  BY DEF EngineInv, ScriptInv
<1> QED
  BY <1>1, EngineInvariant, PTL

\* Every context that is entered is left.
THEOREM EnterIsPaired == Spec => []EnterExitPaired
<1>1. EngineInv => EnterExitPaired
  BY DEF EngineInv, ScriptInv
<1> QED
  BY <1>1, EngineInvariant, PTL

-----------------------------------------------------------------------------
(* The calls of a browser run in the order they were made.                 *)

LEMMA ElementsOf ==
    ASSUME NEW S, NEW s \in Seq(S)
    PROVE  Len(s) \in Nat /\ DOMAIN s \subseteq Nat /\ \A n \in DOMAIN s : s[n] \in S
OBVIOUS

\* A sequence without its first element, and with one more at the end.
LEMMA TailElements ==
    ASSUME NEW S, NEW s \in Seq(S), s # <<>>
    PROVE  /\ Tail(s) \in Seq(S) /\ 1 \in DOMAIN s /\ Head(s) = s[1] /\ s[1] \in S
           /\ DOMAIN s \subseteq Nat
           /\ \A n \in DOMAIN Tail(s) : /\ n \in Nat /\ 1 < n + 1
                                        /\ n + 1 \in DOMAIN s
                                        /\ Tail(s)[n] = s[n + 1]
<1>1. Len(s) \in Nat \ {0} /\ DOMAIN s = 1 .. Len(s)
  BY EmptySeq
<1>2. /\ Tail(s) \in Seq(S) /\ Len(Tail(s)) = Len(s) - 1
      /\ Head(s) = s[1] /\ s[1] \in S
      /\ \A n \in 1 .. Len(Tail(s)) : Tail(s)[n] = s[n + 1]
  BY <1>1, HeadTailProperties
<1>3. DOMAIN Tail(s) = 1 .. Len(s) - 1
  BY <1>2
<1> QED
  BY <1>1, <1>2, <1>3

LEMMA AppendElements ==
    ASSUME NEW S, NEW s \in Seq(S), NEW x \in S
    PROVE  /\ Append(s, x) \in Seq(S) /\ Len(s) \in Nat /\ DOMAIN s = 1 .. Len(s)
           /\ \A n \in DOMAIN Append(s, x) :
                 \/ n \in DOMAIN s /\ n < Len(s) + 1 /\ Append(s, x)[n] = s[n]
                 \/ n = Len(s) + 1 /\ Append(s, x)[n] = x
<1>1. /\ Append(s, x) \in Seq(S) /\ Len(Append(s, x)) = Len(s) + 1
      /\ \A n \in 1 .. Len(s) : Append(s, x)[n] = s[n]
      /\ Append(s, x)[Len(s) + 1] = x
  BY AppendProperties
<1>2. Len(s) \in Nat /\ DOMAIN s = 1 .. Len(s)
  OBVIOUS
<1>3. DOMAIN Append(s, x) = 1 .. Len(s) + 1
  BY <1>1, <1>2
<1> QED
  BY <1>1, <1>2, <1>3

\* The places of ui where a call waits.
Waits == {n \in DOMAIN ui : ui[n].op = "callJs"}

\* The numbers grow along each of the stations a call passes, and whatever has
\* come further has a smaller number than what is behind.
UiOrdered == \A m, n \in Waits : m < n => ui[m].call.no < ui[n].call.no
SentOrdered ==
    \A b \in Browser : \A m, n \in DOMAIN toRenderer[b] :
        m < n => toRenderer[b][m].no < toRenderer[b][n].no
UiBehind ==
    \A n \in Waits :
        /\ ui[n].call.no <= posted
        /\ \A b \in Browser : \A m \in DOMAIN toRenderer[b] :
              toRenderer[b][m].no < ui[n].call.no
        /\ \A m \in DOMAIN ran : ran[m].no < ui[n].call.no
SentBehind ==
    \A b \in Browser : \A n \in DOMAIN toRenderer[b] :
        /\ toRenderer[b][n].no <= posted
        /\ \A m \in DOMAIN ran : ran[m].browser = b => ran[m].no < toRenderer[b][n].no
RanBefore == \A m \in DOMAIN ran : ran[m].no <= posted

OrderInv == UiOrdered /\ SentOrdered /\ UiBehind /\ SentBehind /\ RanBefore /\ CallsInOrder

\* The numbers are numbers.
LEMMA CallNumbers ==
    ASSUME TypeOK
    PROVE  /\ posted \in Nat
           /\ \A n \in Waits : ui[n].call \in Call /\ ui[n].call.no \in Nat
           /\ \A b \in Browser : \A n \in DOMAIN toRenderer[b] :
                 toRenderer[b][n] \in Call /\ toRenderer[b][n].no \in Nat
           /\ \A n \in DOMAIN ran : ran[n].no \in Nat /\ ran[n].browser \in Browser
<1>1. \A c \in Call : c.no \in Nat
  BY DEF Call, CallNo
<1>2. posted \in Nat
  BY CefAssumption DEF TypeOK, HandlerTypeOK
<1>3. ASSUME NEW n \in Waits PROVE ui[n].call \in Call
  <2>1. n \in DOMAIN ui /\ ui \in Seq(UiTask)
    BY DEF Waits, TypeOK, HandlerTypeOK
  <2>2. ui[n] \in UiTask
    BY <2>1
  <2> QED
    BY <2>2 DEF Waits, UiTask
<1>4. ASSUME NEW b \in Browser, NEW n \in DOMAIN toRenderer[b]
      PROVE  toRenderer[b][n] \in Call
  <2>1. toRenderer[b] \in Seq(Call)
    BY DEF TypeOK, CefTypeOK
  <2> QED
    BY <2>1
<1>5. ASSUME NEW n \in DOMAIN ran PROVE ran[n].no \in Nat /\ ran[n].browser \in Browser
  <2>1. ran \in Seq([no : CallNo, browser : Browser])
    BY DEF TypeOK, BridgeTypeOK
  <2>2. ran[n] \in [no : CallNo, browser : Browser]
    BY <2>1, ElementsOf
  <2> QED
    BY <2>2 DEF CallNo
<1> QED
  BY <1>1, <1>2, <1>3, <1>4, <1>5

LEMMA InitOrder == Init => OrderInv
<1> SUFFICES ASSUME Init PROVE OrderInv
  OBVIOUS
<1>1. Waits = {} /\ DOMAIN ran = {} /\ \A b \in Browser : DOMAIN toRenderer[b] = {}
  BY DEF Init, CefInit, HandlerInit, BridgeInit, Waits
<1> QED
  BY <1>1 DEF OrderInv, UiOrdered, SentOrdered, UiBehind, SentBehind, RanBefore,
              CallsInOrder

LEMMA SameOrder ==
    ASSUME OrderInv, UNCHANGED <<ui, toRenderer, ran, posted>>
    PROVE  OrderInv'
BY DEF OrderInv, UiOrdered, SentOrdered, UiBehind, SentBehind, RanBefore,
       CallsInOrder, Waits

\* A task of the UI thread is taken and no call is passed on.
LEMMA TakesOrder ==
    ASSUME TypeOK, OrderInv, NEW op, NEW r, NEW w, Takes(op, r, w),
           UNCHANGED <<toRenderer, ran, posted>>
    PROVE  OrderInv'
<1>1. ui \in Seq(UiTask) /\ ui # <<>> /\ ui' = Tail(ui)
  BY DEF TypeOK, HandlerTypeOK, Takes
<1>2. \A n \in Waits' : n \in Nat /\ n + 1 \in Waits /\ ui'[n] = ui[n + 1]
  BY <1>1, TailElements DEF Waits
<1>3. UiOrdered' /\ UiBehind'
  BY <1>2 DEF OrderInv, UiOrdered, UiBehind
<1> QED
  BY <1>3 DEF OrderInv, SentOrdered, SentBehind, RanBefore, CallsInOrder

\* A task that holds no call, or a new one, is posted.
LEMMA PostsOrder ==
    ASSUME TypeOK, OrderInv, UNCHANGED <<toRenderer, ran>>, posted' \in Nat,
           NEW x \in UiTask, ui' = Append(ui, x), posted <= posted',
           x.op = "callJs" => x.call.no = posted' /\ posted < posted'
    PROVE  OrderInv'
<1>1. ui \in Seq(UiTask) /\ Len(ui) \in Nat
  BY DEF TypeOK, HandlerTypeOK
<1>2. \A n \in Waits' : \/ n \in Waits /\ n < Len(ui) + 1 /\ ui'[n] = ui[n]
                        \/ n = Len(ui) + 1 /\ ui'[n] = x /\ x.op = "callJs"
  BY <1>1, AppendElements DEF Waits
<1>3. /\ posted \in Nat /\ \A n \in Waits : n \in Nat /\ ui[n].call.no \in Nat
      /\ \A b \in Browser : \A n \in DOMAIN toRenderer[b] : toRenderer[b][n].no \in Nat
      /\ \A n \in DOMAIN ran : ran[n].no \in Nat
  BY <1>1, CallNumbers DEF Waits
<1>4. UiOrdered'
  <2>1. \A m \in Waits : ui[m].call.no <= posted
    BY DEF OrderInv, UiBehind
  <2>2. ASSUME NEW m \in Waits', NEW n \in Waits', m < n
        PROVE  ui'[m].call.no < ui'[n].call.no
    <3>1. m \in Waits /\ ui'[m] = ui[m]
      <4>1. n \in Nat /\ n <= Len(ui) + 1
        BY <1>1, <1>2, <1>3
      <4>2. m # Len(ui) + 1
        BY <1>1, <2>2, <4>1
      <4> QED
        BY <1>2, <4>2
    <3>2. CASE n \in Waits /\ ui'[n] = ui[n]
      BY <2>2, <3>1, <3>2 DEF OrderInv, UiOrdered
    <3>3. CASE ui'[n] = x /\ x.op = "callJs"
      <4>1. ui[m].call.no <= posted /\ ui[m].call.no \in Nat
        BY <1>3, <2>1, <3>1
      <4> QED
        BY <1>3, <3>1, <3>3, <4>1
    <3> QED
      BY <1>2, <3>2, <3>3
  <2> QED
    BY <2>2 DEF UiOrdered
<1>5. UiBehind'
  <2>1. ASSUME NEW n \in Waits, ui'[n] = ui[n] PROVE ui[n].call.no <= posted'
    BY <1>3, <2>1 DEF OrderInv, UiBehind
  <2>2. ASSUME x.op = "callJs"
        PROVE  /\ x.call.no <= posted'
               /\ \A b \in Browser : \A m \in DOMAIN toRenderer[b] :
                     toRenderer[b][m].no < x.call.no
               /\ \A m \in DOMAIN ran : ran[m].no < x.call.no
    <3>1. ASSUME NEW b \in Browser, NEW m \in DOMAIN toRenderer[b]
          PROVE  toRenderer[b][m].no < x.call.no
      <4>1. toRenderer[b][m].no <= posted /\ toRenderer[b][m].no \in Nat
        BY <1>3 DEF OrderInv, SentBehind
      <4> QED
        BY <1>3, <2>2, <4>1
    <3>2. ASSUME NEW m \in DOMAIN ran PROVE ran[m].no < x.call.no
      <4>1. ran[m].no <= posted /\ ran[m].no \in Nat
        BY <1>3 DEF OrderInv, RanBefore
      <4> QED
        BY <1>3, <2>2, <4>1
    <3> QED
      BY <2>2, <3>1, <3>2
  <2> QED
    BY <1>2, <2>1, <2>2 DEF OrderInv, UiBehind
<1>6. SentBehind' /\ RanBefore'
  BY <1>3 DEF OrderInv, SentBehind, RanBefore
<1> QED
  BY <1>4, <1>5, <1>6 DEF OrderInv, SentOrdered, CallsInOrder

LEMMA SendOrder ==
    ASSUME TypeOK, OrderInv, NEW r \in Requester, NEW w \in Wnd, callJs(r, w),
           ran' = ran
    PROVE  OrderInv'
<1> DEFINE b == browser_map[w].browser
           call == Head(ui).call
<1>1. ui \in Seq(UiTask) /\ ui # <<>> /\ ui' = Tail(ui) /\ Head(ui).op = "callJs"
  BY DEF TypeOK, HandlerTypeOK, callJs, Takes
<1>2. /\ 1 \in Waits /\ call = ui[1].call
      /\ \A n \in Waits' : /\ n \in Nat /\ n + 1 \in Waits /\ 1 < n + 1
                           /\ ui'[n] = ui[n + 1]
  BY <1>1, TailElements DEF Waits
<1>3. b \in Browser /\ call \in Call
  BY <1>2, CallNumbers DEF callJs, TypeOK, HandlerTypeOK, Entry
<1>4. /\ toRenderer[b] \in Seq(Call) /\ toRenderer'[b] = Append(toRenderer[b], call)
      /\ \A d \in Browser : d # b => toRenderer'[d] = toRenderer[d]
  BY <1>3 DEF callJs, SendCall, TypeOK, CefTypeOK
<1> HIDE DEF b, call
<1>5. \A n \in DOMAIN toRenderer'[b] :
         \/ n \in DOMAIN toRenderer[b] /\ n < Len(toRenderer[b]) + 1
            /\ toRenderer'[b][n] = toRenderer[b][n]
         \/ n = Len(toRenderer[b]) + 1 /\ toRenderer'[b][n] = call
  BY <1>3, <1>4, AppendElements
<1>6. Len(toRenderer[b]) \in Nat /\ DOMAIN toRenderer[b] \subseteq Nat
  <2>1. \A s \in Seq(Call) : Len(s) \in Nat /\ DOMAIN s \subseteq Nat
    BY ElementsOf
  <2> QED
    BY <1>4, <2>1
<1>7. ran' = ran /\ posted' = posted
  BY DEF callJs
<1>8. UiOrdered'
  BY <1>2 DEF OrderInv, UiOrdered
<1>9. SentOrdered'
  <2>1. \A m \in DOMAIN toRenderer[b] : toRenderer[b][m].no < call.no
    BY <1>2, <1>3 DEF OrderInv, UiBehind
  <2>2. ASSUME NEW m \in DOMAIN toRenderer'[b], NEW n \in DOMAIN toRenderer'[b], m < n
        PROVE  toRenderer'[b][m].no < toRenderer'[b][n].no
    <3>1. m \in DOMAIN toRenderer[b] /\ toRenderer'[b][m] = toRenderer[b][m]
      BY <1>5, <1>6, <2>2
    <3> QED
      BY <1>3, <1>5, <2>1, <2>2, <3>1 DEF OrderInv, SentOrdered
  <2> QED
    BY <1>4, <2>2 DEF OrderInv, SentOrdered
<1>10. UiBehind'
  <2>1. \A n \in Waits' : call.no < ui'[n].call.no
    BY <1>2 DEF OrderInv, UiOrdered
  <2>2. ASSUME NEW n \in Waits', NEW d \in Browser, NEW m \in DOMAIN toRenderer'[d]
        PROVE  toRenderer'[d][m].no < ui'[n].call.no
    BY <1>2, <1>4, <1>5, <2>1, <2>2 DEF OrderInv, UiBehind
  <2> QED
    BY <1>2, <1>7, <2>2 DEF OrderInv, UiBehind
<1>11. SentBehind'
  <2>1. call.no <= posted /\ \A m \in DOMAIN ran : ran[m].no < call.no
    BY <1>2 DEF OrderInv, UiBehind
  <2> QED
    BY <1>3, <1>4, <1>5, <1>7, <2>1 DEF OrderInv, SentBehind
<1> QED
  BY <1>7, <1>8, <1>9, <1>10, <1>11 DEF OrderInv, RanBefore, CallsInOrder

\* A call is taken by the renderer of the browser b.
LEMMA TakenOrder ==
    ASSUME TypeOK, OrderInv, NEW b \in Browser, TakesCall(b)
    PROVE  /\ toRenderer[b] \in Seq(Call) /\ 1 \in DOMAIN toRenderer[b]
           /\ Head(toRenderer[b]) = toRenderer[b][1]
           /\ \A d \in Browser : d # b => toRenderer'[d] = toRenderer[d]
           /\ \A n \in DOMAIN toRenderer'[b] :
                 /\ n \in Nat /\ 1 < n + 1 /\ n + 1 \in DOMAIN toRenderer[b]
                 /\ toRenderer'[b][n] = toRenderer[b][n + 1]
           /\ SentOrdered'
<1>1. /\ toRenderer[b] \in Seq(Call) /\ toRenderer[b] # <<>>
      /\ toRenderer'[b] = Tail(toRenderer[b])
      /\ \A d \in Browser : d # b => toRenderer'[d] = toRenderer[d]
  BY DEF TypeOK, CefTypeOK, TakesCall
<1>2. /\ 1 \in DOMAIN toRenderer[b] /\ Head(toRenderer[b]) = toRenderer[b][1]
      /\ \A n \in DOMAIN toRenderer'[b] :
            /\ n \in Nat /\ 1 < n + 1 /\ n + 1 \in DOMAIN toRenderer[b]
            /\ toRenderer'[b][n] = toRenderer[b][n + 1]
  BY <1>1, TailElements
<1>3. SentOrdered'
  <2>1. ASSUME NEW m \in DOMAIN toRenderer'[b], NEW n \in DOMAIN toRenderer'[b], m < n
        PROVE  toRenderer'[b][m].no < toRenderer'[b][n].no
    <3>1. m + 1 < n + 1
      BY <1>2, <2>1
    <3> QED
      BY <1>2, <3>1 DEF OrderInv, SentOrdered
  <2> QED
    BY <1>1, <2>1 DEF OrderInv, SentOrdered
<1> QED
  BY <1>1, <1>2, <1>3

LEMMA RunsOrder ==
    ASSUME TypeOK, OrderInv, NEW b \in Browser, CallJsFunction(b), UNCHANGED handlerVars
    PROVE  OrderInv'
<1> DEFINE no == Head(toRenderer[b]).no
<1>1. TakesCall(b) /\ ui' = ui /\ posted' = posted
  BY DEF CallJsFunction, handlerVars
<1>2. /\ 1 \in DOMAIN toRenderer[b] /\ no = toRenderer[b][1].no
      /\ \A d \in Browser : d # b => toRenderer'[d] = toRenderer[d]
      /\ \A n \in DOMAIN toRenderer'[b] :
            /\ n \in Nat /\ 1 < n + 1 /\ n + 1 \in DOMAIN toRenderer[b]
            /\ toRenderer'[b][n] = toRenderer[b][n + 1]
      /\ SentOrdered'
  BY <1>1, TakenOrder
<1>3. no \in CallNo /\ [no |-> no, browser |-> b] \in [no : CallNo, browser : Browser]
  BY <1>1, TakenCall
<1>4. ran \in Seq([no : CallNo, browser : Browser])
      /\ ran' = Append(ran, [no |-> no, browser |-> b])
  BY DEF CallJsFunction, TypeOK, BridgeTypeOK
<1>5. /\ \A m \in DOMAIN ran' :
            \/ m \in DOMAIN ran /\ m < Len(ran) + 1 /\ ran'[m] = ran[m]
            \/ m = Len(ran) + 1 /\ ran'[m] = [no |-> no, browser |-> b]
      /\ Len(ran) \in Nat /\ DOMAIN ran \subseteq Nat
  BY <1>3, <1>4, AppendElements
<1>6. Waits' = Waits
  BY <1>1 DEF Waits
<1>7. UiOrdered'
  BY <1>1, <1>6 DEF OrderInv, UiOrdered
<1>8. UiBehind'
  <2>1. \A n \in Waits : no < ui[n].call.no
    BY <1>2 DEF OrderInv, UiBehind
  <2>2. ASSUME NEW n \in Waits, NEW d \in Browser, NEW m \in DOMAIN toRenderer'[d]
        PROVE  toRenderer'[d][m].no < ui[n].call.no
    BY <1>2 DEF OrderInv, UiBehind
  <2> QED
    BY <1>1, <1>5, <1>6, <2>1, <2>2 DEF OrderInv, UiBehind
<1>9. SentBehind'
  <2>1. \A n \in DOMAIN toRenderer'[b] : no < toRenderer'[b][n].no
    BY <1>2 DEF OrderInv, SentOrdered
  <2>2. ASSUME NEW d \in Browser, NEW n \in DOMAIN toRenderer'[d],
               NEW m \in DOMAIN ran', ran'[m].browser = d
        PROVE  ran'[m].no < toRenderer'[d][n].no
    BY <1>2, <1>5, <2>1, <2>2 DEF OrderInv, SentBehind
  <2>3. ASSUME NEW d \in Browser, NEW n \in DOMAIN toRenderer'[d]
        PROVE  toRenderer'[d][n].no <= posted
    BY <1>2 DEF OrderInv, SentBehind
  <2> QED
    BY <1>1, <2>2, <2>3 DEF SentBehind
<1>10. RanBefore'
  <2>1. no <= posted
    BY <1>2 DEF OrderInv, SentBehind
  <2> QED
    BY <1>1, <1>5, <2>1 DEF OrderInv, RanBefore
<1>11. CallsInOrder'
  <2>1. \A m \in DOMAIN ran : ran[m].browser = b => ran[m].no < no
    BY <1>2 DEF OrderInv, SentBehind
  <2> QED
    BY <1>5, <2>1 DEF OrderInv, CallsInOrder
<1> QED
  BY <1>2, <1>7, <1>8, <1>9, <1>10, <1>11 DEF OrderInv

LEMMA UnhandledOrder ==
    ASSUME TypeOK, OrderInv, NEW b \in Browser, CallNotHandled(b), UNCHANGED handlerVars
    PROVE  OrderInv'
<1>1. TakesCall(b) /\ ui' = ui /\ posted' = posted /\ ran' = ran
  BY DEF CallNotHandled, handlerVars
<1>2. /\ \A d \in Browser : d # b => toRenderer'[d] = toRenderer[d]
      /\ \A n \in DOMAIN toRenderer'[b] :
            /\ n + 1 \in DOMAIN toRenderer[b]
            /\ toRenderer'[b][n] = toRenderer[b][n + 1]
      /\ SentOrdered'
  BY <1>1, TakenOrder
<1>3. UiOrdered' /\ RanBefore' /\ CallsInOrder'
  BY <1>1 DEF OrderInv, UiOrdered, RanBefore, CallsInOrder, Waits
<1>4. UiBehind'
  <2>1. ASSUME NEW n \in Waits, NEW d \in Browser, NEW m \in DOMAIN toRenderer'[d]
        PROVE  toRenderer'[d][m].no < ui[n].call.no
    BY <1>2 DEF OrderInv, UiBehind
  <2> QED
    BY <1>1, <2>1 DEF OrderInv, UiBehind, Waits
<1>5. SentBehind'
  BY <1>1, <1>2 DEF OrderInv, SentBehind
<1> QED
  BY <1>2, <1>3, <1>4, <1>5 DEF OrderInv

LEMMA StepOrder == EngineInv /\ OrderInv /\ [Next]_vars => OrderInv'
<1> SUFFICES ASSUME EngineInv, OrderInv, [Next]_vars PROVE OrderInv'
  OBVIOUS
<1>0. TypeOK
  BY DEF EngineInv
<1>1. CASE HandlerNext /\ UNCHANGED bridgeVars
  <2>0. ran' = ran
    BY <1>1 DEF bridgeVars
  <2>1. ASSUME NEW r \in Requester, NEW w \in Wnd, Load(r, w) PROVE OrderInv'
    <3>1. [op |-> "load", wnd |-> w, from |-> r] \in UiTask
      BY DEF UiTask
    <3>2. /\ ui' = Append(ui, [op |-> "load", wnd |-> w, from |-> r])
          /\ UNCHANGED <<toRenderer, posted>>
      BY <2>1 DEF Load, cefVars
    <3>3. posted \in Nat
      BY <1>0, CallNumbers
    <3> QED
      BY <1>0, <2>0, <3>1, <3>2, <3>3, PostsOrder
  <2>2. ASSUME NEW r \in Requester, NEW w \in Wnd, NEW n \in Name, CallJs(r, w, n)
        PROVE  OrderInv'
    <3> DEFINE x == [op |-> "callJs", wnd |-> w, from |-> r,
                     call |-> [no |-> posted', name |-> n]]
    <3>1. posted \in Nat /\ posted' = posted + 1 /\ posted' \in CallNo
      BY <1>0, <2>2, CallNumbers, CefAssumption DEF CallJs, CallNo
    <3>2. x \in UiTask
      BY <3>1 DEF UiTask, Call
    <3>3. ui' = Append(ui, x) /\ toRenderer' = toRenderer
      BY <2>2 DEF CallJs, cefVars
    <3>4. x.call.no = posted' /\ posted < posted' /\ posted <= posted' /\ posted' \in Nat
      BY <3>1
    <3> HIDE DEF x
    <3> QED
      BY <1>0, <2>0, <3>2, <3>3, <3>4, PostsOrder
  <2>3. ASSUME NEW r \in Requester,
               RequesterStops(r) \/ RequesterListens(r)
        PROVE  OrderInv'
    BY <2>0, <2>3, SameOrder DEF RequesterStops, RequesterListens, cefVars
  <2>4. ASSUME NEW b \in Browser, OnBeforeClose(b) \/ OnBeforePopup(b) \/ notifyMsg(b)
        PROVE  OrderInv'
    BY <2>0, <2>4, SameOrder DEF OnBeforeClose, OnBeforePopup, notifyMsg
  <2>5. ASSUME NEW r \in Requester, NEW w \in Wnd,
               \/ LoadAgain(r, w) \/ LoadNotConnected(r, w)
               \/ LoadNoBrowser(r, w) \/ LoadBrowser(r, w)
        PROVE  OrderInv'
    <3>1. Takes("load", r, w) /\ UNCHANGED <<toRenderer, posted>>
      BY <2>5 DEF LoadAgain, LoadNotConnected, LoadNoBrowser, LoadBrowser, cefVars
    <3> QED
      BY <1>0, <2>0, <3>1, TakesOrder
  <2>6. ASSUME NEW r \in Requester, NEW w \in Wnd, callJs(r, w) PROVE OrderInv'
    BY <1>0, <2>0, <2>6, SendOrder
  <2>7. ASSUME NEW r \in Requester, NEW w \in Wnd, callJsDropped(r, w) PROVE OrderInv'
    <3>1. Takes("callJs", r, w) /\ UNCHANGED <<toRenderer, posted>>
      BY <2>7 DEF callJsDropped, cefVars
    <3> QED
      BY <1>0, <2>0, <3>1, TakesOrder
  <2> QED
    BY <1>1, <2>1, <2>2, <2>3, <2>4, <2>5, <2>6, <2>7
       DEF HandlerNext, Users, Callbacks, UiThread
<1>2. CASE BridgeNext /\ UNCHANGED handlerVars
  <2>1. ui' = ui /\ posted' = posted
    BY <1>2 DEF handlerVars
  <2>2. CASE Scripts \/ CallReturns
    <3>1. UNCHANGED <<toRenderer, ran>>
      BY <2>2 DEF Scripts, OnContextCreated, OnContextReleased,
                  registerJavascriptFunction, sendMessage, CallReturns, cefVars
    <3> QED
      BY <2>1, <3>1, SameOrder
  <2> QED
    BY <1>0, <1>2, <2>2, RunsOrder, UnhandledOrder DEF BridgeNext, Renderer
<1>3. CASE UNCHANGED vars
  <2>1. UNCHANGED <<ui, toRenderer, ran, posted>>
    BY <1>3 DEF vars, handlerVars, bridgeVars, cefVars
  <2> QED
    BY <2>1, SameOrder
<1> QED
  BY <1>1, <1>2, <1>3 DEF Next

\* The calls that run in one browser run in the order they were made, each
\* once.
THEOREM CallsRunInOrder == Spec => []CallsInOrder
<1>1. OrderInv => CallsInOrder
  BY DEF OrderInv
<1> QED
  BY <1>1, InitOrder, StepOrder, EngineInvariant, PTL DEF Spec
=============================================================================
