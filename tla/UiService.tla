----------------------------- MODULE UiService -------------------------------
(***************************************************************************)
(* The dialogs of the hub: DCCs ask for the palette or the navigator over  *)
(* HTTP, the hub shows the one window it has of each kind, and a click in  *)
(* its palette publishes the file of the launch hint that came last        *)
(* (ui_service.py, the UI routes of server.py and handlers.py).            *)
(*                                                                         *)
(* A hint is the DCC that sent it and the file open there, or NoFile.      *)
(* Requests of one DCC come one after the other, those of two overlap.     *)
(***************************************************************************)
EXTENDS Naturals, FiniteSets

CONSTANTS Dccs, DccFiles,
          NoFile, NoDcc,
          Clicks  \* bound: palette clicks that run at a time

ASSUME UiServiceAssumption == NoFile \notin DccFiles /\ NoDcc \notin Dccs

VARIABLES open,     \* the file open in each DCC
          asks,     \* requests in the hub's threads: [at, hint] of each DCC
          hint,     \* _latest_launch_hint
          shows,    \* closures the GUI thread is going to run
          palette, navigator,  \* the window: "none", "hidden" or "shown"
          clicks    \* clicks in the palette: [at, hint, req]

uiVars == <<open, asks, hint, shows, palette, navigator, clicks>>

NoHint == [dcc |-> NoDcc, file |-> NoFile]
Hint == [dcc : Dccs, file : DccFiles \union {NoFile}] \union {NoHint}
HubWindow == {"none", "hidden", "shown"}
NoClick == [at |-> "idle", hint |-> NoHint, req |-> NoHint]

UiTypeOK ==
    /\ open \in [Dccs -> DccFiles \union {NoFile}]
    /\ asks \in [Dccs -> [at : {"idle", "asked", "noted"}, hint : Hint]]
    /\ hint \in Hint
    /\ shows \subseteq {"palette", "navigator"}
    /\ palette \in HubWindow /\ navigator \in HubWindow
    /\ clicks \in [Clicks -> [at : {"idle", "clicked", "hinted", "built", "answered"}, hint : Hint, req : Hint]]

UiInit ==
    /\ open = [d \in Dccs |-> NoFile]
    /\ asks = [d \in Dccs |-> [at |-> "idle", hint |-> NoHint]]
    /\ hint = NoHint /\ shows = {}
    /\ palette = "none" /\ navigator = "none"
    /\ clicks = [c \in Clicks |-> NoClick]

-----------------------------------------------------------------------------
\* The DCCs

OpenInDcc(d, f) ==
    /\ open' = [open EXCEPT ![d] = f]
    /\ UNCHANGED <<asks, hint, shows, palette, navigator, clicks>>

\* The hint is put together when the artist asks for the palette.
AskPalette(d) ==
    /\ asks[d].at = "idle"
    /\ asks' = [asks EXCEPT ![d] = [at |-> "asked", hint |-> [dcc |-> d, file |-> open[d]]]]
    /\ UNCHANGED <<open, hint, shows, palette, navigator, clicks>>

-----------------------------------------------------------------------------
\* HTTP threads

\* open_palette, first half.
NoteHint(d) ==
    /\ asks[d].at = "asked"
    /\ hint' = asks[d].hint
    /\ asks' = [asks EXCEPT ![d].at = "noted"]
    /\ UNCHANGED <<open, shows, palette, navigator, clicks>>

\* _invoke_on_gui starts a timer in the thread it is called in.  The threads of
\* requests have no event loop: a Qt that does not hand the closure on to the
\* GUI thread never runs it.
InvokeOnGui(what) == shows' \in {shows, shows \union {what}}

\* open_palette, second half: the answer does not wait for the window.
QueueShow(d) ==
    /\ asks[d].at = "noted"
    /\ InvokeOnGui("palette")
    /\ asks' = [asks EXCEPT ![d] = [at |-> "idle", hint |-> NoHint]]
    /\ UNCHANGED <<open, hint, palette, navigator, clicks>>

\* open_navigator; raise_visible_windows raises windows and shows none.
AskNavigator ==
    /\ InvokeOnGui("navigator")
    /\ UNCHANGED <<open, asks, hint, palette, navigator, clicks>>

-----------------------------------------------------------------------------
\* The GUI thread

\* A window that is there is shown again, as it is.
Show ==
    \E what \in shows :
        /\ shows' = shows \ {what}
        /\ palette' = IF what = "palette" THEN "shown" ELSE palette
        /\ navigator' = IF what = "navigator" THEN "shown" ELSE navigator
        /\ UNCHANGED <<open, asks, hint, clicks>>

\* A window whose Qt object is gone is made anew, one that is hidden is kept.
CloseUi ==
    /\ \/ palette = "shown" /\ palette' \in {"hidden", "none"} /\ UNCHANGED navigator
       \/ navigator = "shown" /\ navigator' \in {"hidden", "none"} /\ UNCHANGED palette
    /\ UNCHANGED <<open, asks, hint, shows, clicks>>

\* _dispatch_load names the version by the palette's boxes alone: the file is
\* cached, which LocalCache and ManifestCache model, or it is not.
ClickLoad(c) ==
    /\ palette = "shown" /\ clicks[c].at = "idle"
    /\ clicks' = [clicks EXCEPT ![c].at = "answered"]
    /\ UNCHANGED <<open, asks, hint, shows, palette, navigator>>

\* A worker of Qt's pool.
ClickPublish(c) ==
    /\ palette = "shown" /\ clicks[c].at = "idle"
    /\ clicks' = [clicks EXCEPT ![c].at = "clicked"]
    /\ UNCHANGED <<open, asks, hint, shows, palette, navigator>>

\* _dispatch_publish takes the hint once.
TakeHint(c) ==
    /\ clicks[c].at = "clicked"
    /\ clicks' = [clicks EXCEPT ![c].at = "hinted", ![c].hint = hint]
    /\ UNCHANGED <<open, asks, hint, shows, palette, navigator>>

NoFileKnown(c) ==
    /\ clicks[c].at = "hinted" /\ clicks[c].hint.file = NoFile
    /\ clicks' = [clicks EXCEPT ![c].at = "answered"]
    /\ UNCHANGED <<open, asks, hint, shows, palette, navigator>>

\* Mutated form of RequestOf: the attribute is read again for the DCC.
RequestOfBoth(c) == [file |-> clicks[c].hint.file, dcc |-> hint.dcc]

RequestOf(c) == [file |-> clicks[c].hint.file, dcc |-> clicks[c].hint.dcc]

BuildRequest(c) ==
    /\ clicks[c].at = "hinted" /\ clicks[c].hint.file # NoFile
    /\ clicks' = [clicks EXCEPT ![c].at = "built", ![c].req = RequestOf(c)]
    /\ UNCHANGED <<open, asks, hint, shows, palette, navigator>>

\* handlers.publish, which Publisher models; then the palette's answer.
Dispatched(c) ==
    /\ clicks[c].at \in {"built", "answered"}
    /\ clicks' = [clicks EXCEPT ![c] = NoClick]
    /\ UNCHANGED <<open, asks, hint, shows, palette, navigator>>

UiNext ==
    \/ \E d \in Dccs : \/ \E f \in DccFiles : OpenInDcc(d, f)
                       \/ AskPalette(d) \/ NoteHint(d) \/ QueueShow(d)
    \/ AskNavigator
    \/ Show \/ CloseUi
    \/ \E c \in Clicks : \/ ClickLoad(c) \/ ClickPublish(c) \/ TakeHint(c) \/ NoFileKnown(c)
                         \/ BuildRequest(c) \/ Dispatched(c)

-----------------------------------------------------------------------------

(***************************************************************************)
(* Whatever requests of other DCCs come in while a click is dispatched,    *)
(* the hub publishes a file with the DCC that had it open, and a palette   *)
(* that is there has had a hint.  Which of two DCCs it is, the artist      *)
(* cannot see: the palette still shows the first one's project.            *)
(***************************************************************************)
HintNotTorn ==
    \A c \in Clicks : clicks[c].at = "built" =>
        /\ clicks[c].req = clicks[c].hint
        /\ clicks[c].req.dcc \in Dccs
=============================================================================
