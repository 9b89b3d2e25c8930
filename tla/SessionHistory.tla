--------------------------- MODULE SessionHistory ---------------------------
(***************************************************************************)
(* SessionTurns with a history variable.  A cancel and a completion decide *)
(* before an await that no turn runs, and reset the pin and the tools'     *)
(* prompt id after it; the MCP task and a resumed plan start turns of      *)
(* their own.  `raced` notes the prompts promoted in between.  It observes *)
(* the code and constrains nothing.                                        *)
(***************************************************************************)
EXTENDS SessionTurns

VARIABLE raced   \* prompts promoted by a starter while the loop was Deciding

hvars == <<vars, raced>>

\* The loop has found the session idle and has resets still to do.
Deciding == {"unset", "clear", "abort", "settle"}

Promotes(s) == pc[s] = "start" /\ pc'[s] = "spawn"

NoteRaced ==
  raced' = IF pc["loop"] \in Deciding /\ \E s \in Starters : Promotes(s)
             THEN raced \cup {pin'} ELSE raced

HInit == Init /\ raced = {}
HNext == Next /\ NoteRaced
HSpec == HInit /\ [][HNext]_hvars
HFairSpec == HSpec /\ Fairness

-----------------------------------------------------------------------------
\* Until its scope guard is dropped, the running turn is the one its tools and
\* the pin name ("a stale completion must not clobber the promoted turn's
\* resources", turn_end.rs:184), whoever started it: the one exception is a turn
\* promoted by another task between the decision of a cancel or a completion that
\* the session is idle and the resets that follow it.
ToolsSeeTurn ==
  running # None /\ running \notin raced /\ phase[running] \in Live \ {"unpinned"}
    => resource = running /\ pin = running
=============================================================================
