------------------------------- MODULE Engine -------------------------------
(***************************************************************************)
(* The Chromium engine: ClientHandler in the browser process and JsBridge  *)
(* in the renderer, joined by the messages of CEF.  A user's call of a     *)
(* JavaScript function goes through the UI thread's tasks, the messages to *)
(* the renderer and callback_map_; a page's message goes back through the  *)
(* messages to the browser process and browser_map_.  On the way, windows  *)
(* are closed and opened again, pages replaced, and requesters stop.       *)
(***************************************************************************)
EXTENDS ClientHandler, JsBridge

vars == <<handlerVars, bridgeVars, cefVars>>

Init == CefInit /\ HandlerInit /\ BridgeInit

Next ==
    \/ HandlerNext /\ UNCHANGED bridgeVars
    \/ BridgeNext /\ UNCHANGED handlerVars

Spec == Init /\ [][Next]_vars

-----------------------------------------------------------------------------
\* Every variable holds a value of its kind.
TypeOK == CefTypeOK /\ HandlerTypeOK /\ BridgeTypeOK

Loaded == {w \in Wnd : browser_map[w] # NoEntry}

\* The connections the process holds are those of its windows: each entry of
\* browser_map_ has a handle of its own, which is not destroyed, and no handle
\* is held without an entry, except by a load whose browser was not created
\* (ClientHandler.cpp:153-158), which keeps it for good.
HandlesRecorded ==
    /\ \A w \in Loaded : Held(browser_map[w].inst) /\ browser_map[w].inst \notin orphans
    /\ \A v, w \in Loaded : browser_map[v].inst = browser_map[w].inst => v = w
    /\ \A i \in Inst : Held(i) => i \in orphans \/ \E w \in Loaded : browser_map[w].inst = i

\* The entries of browser_map_ are the browsers made by load that are not
\* closed, each under one window: callJs sends to no closed browser and to no
\* popup, and notifyMsg finds the requester of any page of a user's window.
\* What the pages of popups send it drops: a popup is in no entry.
BrowsersRecorded ==
    /\ browsers \ popups = {browser_map[w].browser : w \in Loaded}
    /\ \A v, w \in Loaded : browser_map[v].browser = browser_map[w].browser => v = w

\* A message of a page goes to the process that loaded the page's window, and
\* to no other, though windows and handles are used again.
HeardByLoader ==
    /\ \A w \in Loaded : dest[browser_map[w].inst] = creator[browser_map[w].browser]
    /\ \A x \in heard : x[1] = creator[x[2]]

\* A function that can be called belongs to a context that is alive, and to a
\* page of the browser the call is for: CallJsFunction enters no context that
\* is released.
CallbacksAlive ==
    \A n \in Name, b \in Browser :
        callback_map[<<n, b>>] # NoCtx => home[callback_map[<<n, b>>]] = b

\* Every context that CallJsFunction enters it leaves, even if the function
\* removes its own page (CefV8HandlerImpl.cpp:108-109).
EnterExitPaired ==
    entered = IF running = Idle THEN <<>> ELSE <<running.ctx>>

\* The calls under way: posted to the UI thread, or sent to a renderer.
Posted == {x.call.no : x \in {y \in TasksOf(ui) : y.op = "callJs"}}
SentTo(b) == {x.no : x \in TasksOf(toRenderer[b])}
Ran == {x.no : x \in TasksOf(ran)}

\* A call that was made is under way in one place, or has come to one end: its
\* function was executed, or there was none, or the call was lost with its
\* browser, or the window had no browser.
CallsConserved ==
    /\ UNION {Posted, UNION {SentTo(b) : b \in Browser}, Ran, unhandled, dropped}
          = 1 .. posted
    /\ \A b \in Browser : SentTo(b) \cap UNION {Posted, Ran, unhandled, dropped} = {}
    /\ Posted \cap UNION {Ran, unhandled, dropped} = {}
    /\ Ran \cap (unhandled \cup dropped) = {}

\* The calls that run in one browser run in the order they were made, each
\* once.
CallsInOrder ==
    \A m, n \in DOMAIN ran :
        m < n /\ ran[m].browser = ran[n].browser => ran[m].no < ran[n].no
=============================================================================
