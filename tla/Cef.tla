--------------------------------- MODULE Cef ---------------------------------
(***************************************************************************)
(* What the Chromium engine relies on in the Chromium Embedded Framework.  *)
(* CEF is a binary, known here by its vendored headers (src/inc/cef).  Its *)
(* browser process has one UI thread; a page runs in a renderer process;   *)
(* a browser and its renderer send each other process messages, which      *)
(* arrive in the order they were sent.                                     *)
(***************************************************************************)
EXTENDS Naturals, Sequences

CONSTANTS
    Name,         \* names of the methods that cross the two processes
    MaxBrowsers,  \* bound: number of browsers that are created
    MaxCalls      \* bound: number of calls of WebContainer.CallJs

ASSUME CefAssumption == MaxBrowsers \in Nat /\ MaxCalls \in Nat

VARIABLES
    lastId,      \* the last identifier given to a browser
    browsers,    \* the browsers that are not closed
    toRenderer,  \* toRenderer[b]: messages "call_js" under way to b's renderer
    toBrowser    \* toBrowser[b]: messages "sendMessage" under way from there

cefVars == <<lastId, browsers, toRenderer, toBrowser>>

\* CefBrowser::GetIdentifier: unique among all browsers, closed ones included.
Browser == 1 .. MaxBrowsers
CallNo == 1 .. MaxCalls
Call == [no : CallNo, name : Name]

CefInit ==
    /\ lastId = 0 /\ browsers = {}
    /\ toRenderer = [b \in Browser |-> <<>>]
    /\ toBrowser = [b \in Browser |-> <<>>]

CefTypeOK ==
    /\ lastId \in 0 .. MaxBrowsers
    /\ browsers \subseteq 1 .. lastId
    /\ toRenderer \in [Browser -> Seq(Call)]
    /\ toBrowser \in [Browser -> Seq(Name)]

\* A browser is created: CefBrowserHost::CreateBrowserSync succeeds, or a page
\* opens a popup.
NewId == lastId + 1
CreateBrowser ==
    /\ lastId < MaxBrowsers
    /\ lastId' = NewId
    /\ browsers' = browsers \cup {NewId}

\* CefBrowser::SendProcessMessage, to PID_RENDERER and to PID_BROWSER.
SendCall(b, call) == toRenderer' = [toRenderer EXCEPT ![b] = Append(@, call)]
SendToBrowser(b, name) == toBrowser' = [toBrowser EXCEPT ![b] = Append(@, name)]
=============================================================================
