------------------------------ MODULE JsBridge ------------------------------
(***************************************************************************)
(* The renderer side of the Chromium engine (src/Chromium/                 *)
(* BrowserSubProcess): CefV8HandlerImpl gives a page the functions         *)
(* app.registerJavascriptFunction and app.sendMessage, and calls a         *)
(* registered function when the browser process asks for it.  All of it    *)
(* runs on one thread, on which V8 contexts also come and go: one for each *)
(* frame of each page.                                                     *)
(***************************************************************************)
EXTENDS Cef

CONSTANTS
    Ctx,         \* V8 contexts
    NoCtx,       \* no entry in callback_map_
    MaxMessages  \* bound: number of messages the pages send

ASSUME JsBridgeAssumption == NoCtx \notin Ctx /\ MaxMessages \in Nat

VARIABLES
    home,          \* home[c]: the browser whose frame the context c belongs to
    callback_map,  \* callback_map_: the context of the registered function
    running,       \* the call whose function is executed
    entered,       \* contexts that were entered and not left
    ran,           \* the calls whose function was executed, in order
    unhandled,     \* numbers of the calls that no function was found for, or
                   \* that were lost with their browser
    messages       \* what is left of MaxMessages

bridgeVars == <<home, callback_map, running, entered, ran, unhandled, messages>>

Gone == 0  \* the home of a context that does not exist
Idle == [ctx |-> NoCtx, no |-> 0]

BridgeInit ==
    /\ home = [c \in Ctx |-> Gone]
    /\ callback_map = [k \in Name \X Browser |-> NoCtx]
    /\ running = Idle /\ entered = <<>>
    /\ ran = <<>> /\ unhandled = {}
    /\ messages = MaxMessages

-----------------------------------------------------------------------------
(* CEF and the pages.                                                      *)

OnContextCreated(c) ==
    /\ home[c] = Gone
    /\ \E b \in browsers : home' = [home EXCEPT ![c] = b]
    /\ UNCHANGED <<callback_map, running, entered, ran, unhandled, messages, cefVars>>

\* callback_map_ without the functions of the context c.  The mutated form
\* erases nothing.
ErasedNone(c) == callback_map
Erased(c) == [k \in Name \X Browser |-> IF callback_map[k] = c THEN NoCtx
                                                               ELSE callback_map[k]]

\* It may be the context of the function that is executed.
OnContextReleased(c) ==
    /\ home[c] # Gone
    /\ home' = [home EXCEPT ![c] = Gone]
    /\ callback_map' = Erased(c)
    /\ UNCHANGED <<running, entered, ran, unhandled, messages, cefVars>>

\* Execute, by a script of the context c.  insert keeps a function that is
\* registered already, even another context's, and the script is not told.
registerJavascriptFunction(c, n) ==
    /\ home[c] # Gone
    /\ callback_map' = [callback_map EXCEPT ![<<n, home[c]>>] = IF @ = NoCtx THEN c ELSE @]
    /\ UNCHANGED <<home, running, entered, ran, unhandled, messages, cefVars>>

sendMessage(c, n) ==
    /\ messages > 0 /\ messages' = messages - 1
    /\ home[c] \in browsers
    /\ SendToBrowser(home[c], n)
    /\ UNCHANGED <<home, callback_map, running, entered, ran, unhandled, lastId,
                   browsers, toRenderer>>

-----------------------------------------------------------------------------
(* CallJsFunction, for a message of the browser b.                         *)

TakesCall(b) ==
    /\ running = Idle
    /\ toRenderer[b] # <<>>
    /\ toRenderer' = [toRenderer EXCEPT ![b] = Tail(@)]
Function(b) == callback_map[<<Head(toRenderer[b]).name, b>>]

\* Enter and ExecuteFunction, on references the call holds itself.  The
\* mutated form does not ask whether there is a function.
CallJsFunctionAny(b) ==
    /\ TakesCall(b)
    /\ running' = [ctx |-> Function(b), no |-> Head(toRenderer[b]).no]
    /\ entered' = Append(entered, Function(b))
    /\ ran' = Append(ran, [no |-> Head(toRenderer[b]).no, browser |-> b])
    /\ UNCHANGED <<home, callback_map, unhandled, messages, lastId, browsers, toBrowser>>
CallJsFunction(b) ==
    /\ TakesCall(b)
    /\ Function(b) # NoCtx
    /\ running' = [ctx |-> Function(b), no |-> Head(toRenderer[b]).no]
    /\ entered' = Append(entered, Function(b))
    /\ ran' = Append(ran, [no |-> Head(toRenderer[b]).no, browser |-> b])
    /\ UNCHANGED <<home, callback_map, unhandled, messages, lastId, browsers, toBrowser>>

\* There is no function for the message, or the browser is closed and the
\* message goes with it.  A renderer that dies releases its contexts, as far
\* as anything here can tell, and its messages find no function.
CallNotHandled(b) ==
    /\ TakesCall(b)
    /\ Function(b) = NoCtx \/ b \notin browsers
    /\ unhandled' = unhandled \cup {Head(toRenderer[b]).no}
    /\ UNCHANGED <<home, callback_map, running, entered, ran, messages, lastId,
                   browsers, toBrowser>>

\* The context to leave.  The mutated form looks it up in the map once more:
\* the function may have gone from there, with its page.
ExitsAgain ==
    IF \E k \in Name \X Browser : callback_map[k] = running.ctx
      THEN SubSeq(entered, 1, Len(entered) - 1) ELSE entered
Exits == SubSeq(entered, 1, Len(entered) - 1)

\* The function returns; Exit.
CallReturns ==
    /\ running # Idle
    /\ entered' = Exits
    /\ running' = Idle
    /\ UNCHANGED <<home, callback_map, ran, unhandled, messages, cefVars>>

Scripts ==
    \E c \in Ctx :
        \/ OnContextCreated(c) \/ OnContextReleased(c)
        \/ \E n \in Name : registerJavascriptFunction(c, n) \/ sendMessage(c, n)
Renderer == (\E b \in Browser : CallJsFunction(b) \/ CallNotHandled(b)) \/ CallReturns
BridgeNext == Scripts \/ Renderer

BridgeTypeOK ==
    /\ home \in [Ctx -> 0 .. MaxBrowsers]
    /\ callback_map \in [Name \X Browser -> Ctx \cup {NoCtx}]
    /\ running \in [ctx : Ctx \cup {NoCtx}, no : 0 .. MaxCalls]
    /\ entered \in Seq(Ctx)
    /\ ran \in Seq([no : CallNo, browser : Browser])
    /\ unhandled \subseteq CallNo
    /\ messages \in 0 .. MaxMessages
=============================================================================
