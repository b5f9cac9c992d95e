---------------------------- MODULE ClientHandler ----------------------------
(***************************************************************************)
(* The browser process of the Chromium engine (src/Chromium/MainBrowser):  *)
(* ClientHandler and the sRPC methods Load and CallJs.  User processes,    *)
(* the requesters, call the methods on threads of sRPC; both only post a   *)
(* task to the UI thread of CEF, where all of ClientHandler runs.  For     *)
(* each window there is a browser and a connection back to the requester,  *)
(* on which the messages of the page are passed on.  The popups that pages *)
(* open have neither.                                                      *)
(*                                                                         *)
(* The process sets no error callback (it never calls SRPC_SetConnErrCb),  *)
(* so no notice of a lost connection is ever due.                          *)
(***************************************************************************)
EXTENDS Cef, FiniteSets

CONSTANTS
    Inst, NULL, ReuseHandles,  \* see Srpc
    Wnd,        \* window handles of the requesters
    Requester,  \* the addresses (szRspAddr) of the requesters
    NoEntry,    \* no entry in browser_map_
    MaxLoads,   \* bound: number of calls of WebContainer.Load
    MaxFaults   \* bound: requesters that stop, browsers that are not created

ASSUME ClientHandlerAssumption ==
    /\ NULL \notin Inst /\ ReuseHandles \in BOOLEAN
    /\ MaxLoads \in Nat /\ MaxFaults \in Nat
    /\ NoEntry \notin [inst : Inst, browser : Browser]

VARIABLES
    conn,         \* see Srpc
    listening,    \* the requesters whose server is up
    dest,         \* dest[i]: the requester the handle i connects to
    ui,           \* tasks posted to TID_UI
    browser_map,  \* browser_map_
    creator,      \* creator[b]: the requester whose load made the browser b,
                  \* or the browser whose page opened it
    popups,       \* the browsers that were opened by pages
    orphans,      \* handles of loads whose browser was not created
    heard,        \* pairs of a requester and a browser it had a message from
    posted,       \* calls of CallJs made
    dropped,      \* numbers of the calls that ended without running
    budget        \* what is left of each bound

INSTANCE Srpc WITH notices <- {}

mapState == <<conn, dest, browser_map, creator, popups, orphans>>
handlerVars == <<mapState, listening, ui, heard, posted, dropped, budget>>

Entry == [inst : Inst, browser : Browser]
UiTask == [op : {"load"}, wnd : Wnd, from : Requester]
     \cup [op : {"callJs"}, wnd : Wnd, from : Requester, call : Call]

HandlerInit ==
    /\ conn = [i \in Inst |-> "unused"]
    /\ listening = Requester
    /\ dest = [i \in Inst |-> NULL]
    /\ ui = <<>>
    /\ browser_map = [w \in Wnd |-> NoEntry]
    /\ creator = [b \in Browser |-> NULL]
    /\ popups = {} /\ orphans = {} /\ heard = {} /\ posted = 0 /\ dropped = {}
    /\ budget = [load |-> MaxLoads, fault |-> MaxFaults]

Has(what) == budget[what] > 0
Spend(what) == budget' = [budget EXCEPT ![what] = @ - 1]
TasksOf(seq) == {seq[n] : n \in DOMAIN seq}

-----------------------------------------------------------------------------
(* The requesters, and the sRPC threads that serve their calls.            *)

\* Assumed: Windows gives the value of a window handle to another process
\* only when no browser or task of the former owner is left here.
MayUse(r, w) ==
    /\ r \in listening
    /\ \A x \in TasksOf(ui) : x.wnd = w => x.from = r
    /\ browser_map[w] # NoEntry => creator[browser_map[w].browser] = r

Load(r, w) ==
    /\ Has("load") /\ Spend("load")
    /\ MayUse(r, w)
    /\ ui' = Append(ui, [op |-> "load", wnd |-> w, from |-> r])
    /\ UNCHANGED <<mapState, listening, heard, posted, dropped, cefVars>>

\* The mutated form calls at once if the window has a browser.
CallJsNow(r, w, n) ==
    /\ posted < MaxCalls
    /\ MayUse(r, w)
    /\ posted' = posted + 1
    /\ LET call == [no |-> posted', name |-> n]
       IN IF browser_map[w] = NoEntry
          THEN /\ ui' = Append(ui, [op |-> "callJs", wnd |-> w, from |-> r, call |-> call])
               /\ UNCHANGED toRenderer
          ELSE SendCall(browser_map[w].browser, call) /\ UNCHANGED ui
    /\ UNCHANGED <<mapState, listening, heard, dropped, budget, lastId, browsers,
                   toBrowser>>
CallJs(r, w, n) ==
    /\ posted < MaxCalls
    /\ MayUse(r, w)
    /\ posted' = posted + 1
    /\ ui' = Append(ui, [op |-> "callJs", wnd |-> w, from |-> r,
                         call |-> [no |-> posted', name |-> n]])
    /\ UNCHANGED <<mapState, listening, heard, dropped, budget, cefVars>>

\* The requester exits, or calls WebContainerAPI_Uninit: its server is gone.
RequesterStops(r) ==
    /\ Has("fault") /\ Spend("fault")
    /\ r \in listening
    /\ listening' = listening \ {r}
    /\ conn' = [i \in Inst |-> IF conn[i] = "open" /\ dest[i] = r
                               THEN "lost" ELSE conn[i]]
    /\ UNCHANGED <<dest, ui, browser_map, creator, popups, orphans, heard,
                   posted, dropped, cefVars>>

\* The same process calls WebContainerAPI_Init again: the same address.
RequesterListens(r) ==
    /\ r \notin listening
    /\ listening' = listening \cup {r}
    /\ UNCHANGED <<mapState, ui, heard, posted, dropped, budget, cefVars>>

-----------------------------------------------------------------------------
(* The UI thread: the tasks that were posted to it, in order.              *)

\* The task in front is op, for the window w of the requester r, and is taken.
\* The mutated form posts it again.
TakesAgain(op, r, w) ==
    /\ ui # <<>>
    /\ Head(ui).op = op /\ Head(ui).wnd = w /\ Head(ui).from = r
    /\ ui' = Append(Tail(ui), Head(ui))
Takes(op, r, w) ==
    /\ ui # <<>>
    /\ Head(ui).op = op /\ Head(ui).wnd = w /\ Head(ui).from = r
    /\ ui' = Tail(ui)

\* browser_map_.find(hWnd) # end, in load.  The mutated form never finds it.
FindNever(w) == FALSE
Find(w) == browser_map[w] # NoEntry

\* browser_map_.insert: an entry that is there stays.
insert(w, entry) == [browser_map EXCEPT ![w] = IF @ = NoEntry THEN entry ELSE @]

\* The handles that SRPC_CreateClient to the requester r may return.  The
\* mutated form shares the connections that are open.
ConnectsOnce(r) ==
    LET open == {i \in Inst : conn[i] = "open"}
    IN IF r \notin listening THEN {} ELSE IF open = {} THEN Fresh ELSE open
Connects(r) == IF r \in listening THEN Fresh ELSE {}

\* load, for a window that has a browser: LoadURL.  What it does to the page
\* is in JsBridge, where contexts come and go.  The connection stays.
LoadAgain(r, w) ==
    /\ Takes("load", r, w)
    /\ Find(w)
    /\ UNCHANGED <<mapState, listening, heard, posted, dropped, budget, cefVars>>

\* load: SRPC_CreateClient fails, the page is not shown.
LoadNotConnected(r, w) ==
    /\ Takes("load", r, w)
    /\ ~Find(w)
    /\ \/ r \notin listening /\ UNCHANGED budget
       \/ Has("fault") /\ Spend("fault")
    /\ UNCHANGED <<mapState, listening, heard, posted, dropped, cefVars>>

\* load: the connection is made and the browser is not.
LoadNoBrowser(r, w) ==
    /\ Takes("load", r, w)
    /\ ~Find(w)
    /\ Has("fault") /\ Spend("fault")
    /\ \E i \in Connects(r) :
          /\ conn' = Opened({i})
          /\ dest' = [dest EXCEPT ![i] = r]
          /\ orphans' = orphans \cup {i}
    /\ UNCHANGED <<browser_map, creator, popups, listening, heard, posted, dropped,
                   cefVars>>

LoadBrowser(r, w) ==
    /\ Takes("load", r, w)
    /\ ~Find(w)
    /\ \E i \in Connects(r) :
          /\ conn' = Opened({i})
          /\ dest' = [dest EXCEPT ![i] = r]
          /\ browser_map' = insert(w, [inst |-> i, browser |-> NewId])
    /\ CreateBrowser
    /\ creator' = [creator EXCEPT ![NewId] = r]
    /\ UNCHANGED <<popups, orphans, listening, heard, posted, dropped, budget,
                   toRenderer, toBrowser>>

\* callJs, with and without a browser for the window.
callJs(r, w) ==
    /\ Takes("callJs", r, w)
    /\ browser_map[w] # NoEntry
    /\ SendCall(browser_map[w].browser, Head(ui).call)
    /\ UNCHANGED <<mapState, listening, heard, posted, dropped, budget, lastId,
                   browsers, toBrowser>>
callJsDropped(r, w) ==
    /\ Takes("callJs", r, w)
    /\ browser_map[w] = NoEntry
    /\ dropped' = dropped \cup {Head(ui).call.no}
    /\ UNCHANGED <<mapState, listening, heard, posted, budget, cefVars>>

-----------------------------------------------------------------------------
(* The UI thread: the callbacks of CEF.                                    *)

\* The windows whose entry has the browser b (IsSame).
WndsOf(b) == {w \in Wnd : browser_map[w] # NoEntry /\ browser_map[w].browser = b}

\* SRPC_DestroyClient of the connection, and browser_map_.erase, in
\* OnBeforeClose.  The mutated form leaves the first out.
DestroyNone(b) == conn
DestroyFor(b) == Destroyed({browser_map[w].inst : w \in WndsOf(b)})
Erase(b) == [w \in Wnd |-> IF w \in WndsOf(b) THEN NoEntry ELSE browser_map[w]]

\* The window of the browser b is destroyed, or the page closes itself.
OnBeforeClose(b) ==
    /\ b \in browsers
    /\ browsers' = browsers \ {b}
    /\ conn' = DestroyFor(b)
    /\ browser_map' = Erase(b)
    /\ UNCHANGED <<dest, creator, popups, orphans, listening, ui, heard, posted,
                   dropped, budget, lastId, toRenderer, toBrowser>>

\* A page of the browser b opens a popup (window.open, a link with a target).
\* ClientHandler leaves OnBeforePopup to CEF, which creates the browser with
\* the same client.  It gets no entry in browser_map_.
OnBeforePopup(b) ==
    /\ b \in browsers
    /\ CreateBrowser
    /\ popups' = popups \cup {NewId}
    /\ creator' = [creator EXCEPT ![NewId] = creator[b]]
    /\ UNCHANGED <<conn, dest, browser_map, orphans, listening, ui, heard, posted,
                   dropped, budget, toRenderer, toBrowser>>

\* OnProcessMessageReceived and notifyMsg: the message of a page is passed on
\* to the requester of its browser; it is lost with the connection.  A popup's
\* message finds no entry and is dropped.
notifyMsg(b) ==
    /\ toBrowser[b] # <<>>
    /\ toBrowser' = [toBrowser EXCEPT ![b] = Tail(@)]
    /\ heard' = heard \cup {<<dest[browser_map[w].inst], b>> :
                    w \in {x \in WndsOf(b) : conn[browser_map[x].inst] = "open"}}
    /\ UNCHANGED <<mapState, listening, ui, posted, dropped, budget, lastId,
                   browsers, toRenderer>>

UiThread ==
    \E r \in Requester, w \in Wnd :
        \/ LoadAgain(r, w) \/ LoadNotConnected(r, w)
        \/ LoadNoBrowser(r, w) \/ LoadBrowser(r, w)
        \/ callJs(r, w) \/ callJsDropped(r, w)
Users ==
    \E r \in Requester :
        \/ \E w \in Wnd : Load(r, w) \/ \E n \in Name : CallJs(r, w, n)
        \/ RequesterStops(r) \/ RequesterListens(r)
Callbacks == \E b \in Browser : OnBeforeClose(b) \/ OnBeforePopup(b) \/ notifyMsg(b)

HandlerNext == UiThread \/ Users \/ Callbacks

HandlerTypeOK ==
    /\ conn \in [Inst -> ConnState]
    /\ listening \subseteq Requester
    /\ dest \in [Inst -> Requester \cup {NULL}]
    /\ ui \in Seq(UiTask)
    /\ browser_map \in [Wnd -> Entry \cup {NoEntry}]
    /\ creator \in [Browser -> Requester \cup {NULL}]
    /\ popups \subseteq Browser /\ orphans \subseteq Inst
    /\ heard \subseteq Requester \X Browser
    /\ posted \in 0 .. MaxCalls /\ dropped \subseteq CallNo
    /\ budget \in [{"load", "fault"} -> Nat]
=============================================================================
