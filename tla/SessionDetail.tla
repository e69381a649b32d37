--------------------------- MODULE SessionDetail ----------------------------
(* The session dialog of the console (web/src/main.tsx): the events of       *)
(* the selected session, by page and by what the operator wants to see.      *)
(* Every change of these runs an effect again: it empties the table and asks *)
(* anew, and the answers of its older runs, which come in any order, are     *)
(* dropped by their alive flag.  The workspace may take the session away at  *)
(* any time, or end the login.                                               *)
(*                                                                           *)
(* What an answer holds is kept as the question it answers.                  *)
EXTENDS Console, Naturals, FiniteSets

CONSTANTS Session,
          LastPage,    \* bound: pages of a session
          MaxAsked     \* bound: requests the network holds at a time

DetailMode == {"important", "all", "routine"}
Question == [session : Session, page : 0..LastPage, mode : DetailMode]
Asked == [about : Question, alive : BOOLEAN, phase : {"asked", "answered", "failed"}]

ASSUME DetailAssumption == LastPage \in Nat /\ None \notin Question

VARIABLES
    selected, detailPage, detailMode,
    detail,        \* the question the table answers, None for an empty table
    detailError, detailLoading,
    asked,         \* the runs of the effect whose answer is still to be handled
    stale          \* selected was taken away and the effect has not run again yet

detailVars == <<selected, detailPage, detailMode, detail, detailError, detailLoading, asked, stale>>
shown == <<detail, detailError, detailLoading>>
chosen == <<selected, detailPage, detailMode>>

DetailTypeOK ==
    /\ selected \in Session \cup {None} /\ detailPage \in 0..LastPage /\ detailMode \in DetailMode
    /\ detail \in Question \cup {None} /\ detailError \in BOOLEAN /\ detailLoading \in BOOLEAN
    /\ asked \subseteq Asked /\ stale \in BOOLEAN

-----------------------------------------------------------------------------
\* The cleanup of the effect, and its run for what is selected now.
Dropped == { [q EXCEPT !.alive = FALSE] : q \in asked }

Rerun(s, page, mode) ==
    IF s = None
    THEN asked' = Dropped /\ UNCHANGED shown
    ELSE /\ Cardinality(Dropped) < MaxAsked
         /\ asked' = Dropped \cup
                {[about |-> [session |-> s, page |-> page, mode |-> mode],
                  alive |-> TRUE, phase |-> "asked"]}
         /\ detail' = None /\ detailError' = FALSE /\ detailLoading' = TRUE

\* A click sets the state and runs the effect at once.
Choose(s, page, mode) ==
    /\ <<s, page, mode>> # chosen
    /\ selected' = s /\ detailPage' = page /\ detailMode' = mode
    /\ Rerun(s, page, mode)
    /\ stale' = FALSE

\* The button of a row, behind the dialog.
OpenDetail(s) == selected = None /\ Choose(s, 0, "important")
CloseDetail == selected # None /\ Choose(None, detailPage, detailMode)
ChangeMode(mode) == selected # None /\ Choose(selected, 0, mode)

\* The next page is offered when the table shown has more than a page.
ChangePage ==
    /\ selected # None
    /\ \/ detailPage > 0 /\ Choose(selected, detailPage - 1, detailMode)
       \/ /\ detail # None /\ detail.page < LastPage /\ detailPage < LastPage
          /\ Choose(selected, detailPage + 1, detailMode)

\* A poll without the server of the session, or the end of the login.
Deselect ==
    /\ selected # None
    /\ selected' = None /\ stale' = TRUE
    /\ detail' \in {detail, None}    \* clearWorkspace empties the table as well
    /\ UNCHANGED <<detailPage, detailMode, detailError, detailLoading, asked>>

EffectReRun ==
    /\ stale
    /\ stale' = FALSE
    /\ Rerun(selected, detailPage, detailMode)
    /\ UNCHANGED chosen

-----------------------------------------------------------------------------
AnswerDetail(q) ==
    /\ q.phase = "asked"
    /\ \E phase \in {"answered", "failed"} :
          asked' = (asked \ {q}) \cup {[q EXCEPT !.phase = phase]}
    /\ UNCHANGED <<chosen, shown, stale>>

\* Mutant of Alive: the effect has no cleanup.
AliveAlways(q) == TRUE

Alive(q) == q.alive

\* The handlers of a run.
HandleDetail(q) ==
    /\ q.phase # "asked"
    /\ asked' = asked \ {q}
    /\ IF Alive(q)
       THEN /\ IF q.phase = "answered" THEN detail' = q.about /\ UNCHANGED detailError
                                       ELSE detailError' = TRUE /\ UNCHANGED detail
            /\ detailLoading' = FALSE
       ELSE UNCHANGED shown
    /\ UNCHANGED <<chosen, stale>>

-----------------------------------------------------------------------------
DetailInit ==
    /\ selected = None /\ detailPage = 0 /\ detailMode = "important"
    /\ detail = None /\ detailError = FALSE /\ detailLoading = FALSE
    /\ asked = {} /\ stale = FALSE

DetailNext ==
    \/ \E s \in Session : OpenDetail(s)
    \/ CloseDetail \/ ChangePage \/ \E mode \in DetailMode : ChangeMode(mode)
    \/ Deselect \/ EffectReRun
    \/ \E q \in asked : AnswerDetail(q) \/ HandleDetail(q)

DetailSpec == DetailInit /\ [][DetailNext]_detailVars

-----------------------------------------------------------------------------
\* The open dialog shows the events of its own session, page and mode, or
\* none: no answer that arrives late fills it with those of another one.  Once
\* nothing is loading it shows them, or the error (main.tsx:244).
DetailIsOfSelected ==
    selected # None =>
        /\ detail \in {None, [session |-> selected, page |-> detailPage, mode |-> detailMode]}
        /\ ~detailLoading => detail # None \/ detailError

=============================================================================
