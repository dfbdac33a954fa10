----------------------------- MODULE ToolGates -----------------------------
(***************************************************************************)
(* The gates that PreToolUse puts before a tool call under the strict      *)
(* profile: the first edit of a file and a destructive command, with what  *)
(* authorises them and how long it is remembered                           *)
(* (src/engine/hooks/gate-registry.ts and edit-gates.ts,                   *)
(* src/hook-handlers/pre-tool-use.ts and post-tool-use.ts).                *)
(*                                                                         *)
(* A subject is what the gates look for and remember: the path of a file,  *)
(* or the name of the one destructive pattern.  What is said, by a user or *)
(* by the agent, is the set of subjects it names; a user may also give a   *)
(* command of the pattern word for word.                                   *)
(***************************************************************************)
EXTENDS Naturals

CONSTANTS
  Files,     \* files the agent may edit
  Pattern,   \* the name of a destructive pattern
  Commands,  \* commands that match it
  MaxPrompts, MaxFaults

Subjects == Files \cup {Pattern}
Texts    == SUBSET (Subjects \cup Commands)

VARIABLES
  prompts,   \* prompts so far
  known,     \* the daemon has a session object
  observed,  \* _observedFilePaths
  checked,   \* _editGateChecked
  idle,      \* nothing was gated for longer than the idle time-out
  lastText,  \* lastUserText
  writing,   \* user texts whose rows are being written, and the agent's
  rows,      \* <<role, subject>>: what the turn rows of the session name
  store,     \* the store can be reached
  seen,      \* history: files that were read, surfaced or named before
  named,     \* history: the pattern and the commands the user has named
  allowed,   \* history: files and commands a gate has let through by its own rules
  faults

gate  == <<observed, checked, idle>>
texts == <<lastText, writing, rows>>
past  == <<seen, named, allowed>>
vars  == <<prompts, known, gate, texts, store, past, faults>>

Roles == {"user", "assistant"}

TypeOK ==
  /\ prompts \in 0..MaxPrompts /\ known \in BOOLEAN /\ idle \in BOOLEAN /\ store \in BOOLEAN
  /\ observed \subseteq Files /\ checked \subseteq Subjects /\ lastText \in Texts
  /\ writing \subseteq Roles \X Subjects /\ rows \subseteq Roles \X Subjects
  /\ seen \subseteq Files /\ named \subseteq Commands \cup {Pattern}
  /\ allowed \subseteq Files \cup Commands /\ faults \in 0..MaxFaults

Init ==
  /\ prompts = 0 /\ known = TRUE /\ observed = {} /\ checked = {} /\ idle = FALSE
  /\ lastText = {} /\ writing = {} /\ rows = {} /\ store = TRUE
  /\ seen = {} /\ named = {} /\ allowed = {} /\ faults = 0

-----------------------------------------------------------------------------
(* A definition named Bad... is a faulty variant of the one it precedes;   *)
(* no action uses it.                                                      *)

Fault == faults < MaxFaults /\ faults' = faults + 1

(* UserPromptSubmit makes the session if there is none, and writes the row *)
(* of the prompt while the agent works.                                    *)
UserPrompt(text) ==
  /\ prompts < MaxPrompts /\ prompts' = prompts + 1 /\ known' = TRUE
  /\ lastText' = text /\ writing' = writing \cup {<<"user", x>> : x \in text \cap Subjects}
  /\ named' = named \cup (text \ Files) /\ seen' = seen \cup (text \cap Files)
  /\ UNCHANGED <<gate, rows, store, allowed, faults>>

(* Stop writes the agent's own text.                                       *)
AgentSays(x) ==
  /\ known /\ writing' = writing \cup {<<"assistant", x>>}
  /\ UNCHANGED <<prompts, known, gate, lastText, rows, store, past, faults>>

(* ingestTurn: it gives up without a store.                                *)
Ingest(t) ==
  /\ t \in writing /\ writing' = writing \ {t}
  /\ rows' = IF store THEN rows \cup {t} ELSE rows
  /\ UNCHANGED <<prompts, known, gate, lastText, store, past, faults>>

(* PreToolUse of a Read, and PostToolUse of a recall or a search, whose    *)
(* result may name the file.                                               *)
Read(f) ==
  /\ seen' = seen \cup {f} /\ observed' = IF known THEN observed \cup {f} ELSE observed
  /\ UNCHANGED <<prompts, known, checked, idle, texts, store, named, allowed, faults>>

(* maybeWipeIdleCache                                                      *)
Remembered == IF idle THEN {} ELSE checked

(* The cold path asks for the rows of the user only, and for the name of   *)
(* the pattern, not for the command.                                       *)
BadMentioned == {x \in Subjects : \E r \in Roles : <<r, x>> \in rows}
Mentioned == {x \in Subjects : <<"user", x>> \in rows}

(* What hasInvestigatedFile and hasInvestigatedBashCommand find authorised *)
(* is remembered; without a store the gate is open, and remembers nothing. *)
Recall(x, found) ==
  /\ checked' = IF found THEN Remembered \cup {x} ELSE Remembered
  /\ idle' = FALSE

(* PreToolUse of an edit observes its own file before the gates run.       *)
Edit(f) ==
  LET found == f \in Remembered \cup observed' \cup lastText \/ (store /\ f \in Mentioned) IN
  /\ known /\ observed' = observed \cup {f} /\ Recall(f, found)
  /\ allowed' = IF found THEN allowed \cup {f} ELSE allowed
  /\ UNCHANGED <<prompts, known, texts, store, seen, named, faults>>

(* A user who gives one command word for word authorises its pattern: what *)
(* is remembered lets every other command of it through.                   *)
Authorised(c) ==
  \/ Pattern \in Remembered
  \/ {c, Pattern} \cap lastText # {}
  \/ store /\ Pattern \in Mentioned

Bash(c) ==
  /\ known /\ Recall(Pattern, Authorised(c))
  /\ allowed' = IF Authorised(c) THEN allowed \cup {c} ELSE allowed
  /\ UNCHANGED <<prompts, known, observed, texts, store, seen, named, faults>>

(* Half an hour passes, the store comes and goes, the daemon ends or       *)
(* evicts the session: the hooks of a session it does not know do nothing. *)
GoesIdle ==
  /\ ~idle /\ idle' = TRUE
  /\ UNCHANGED <<prompts, known, observed, checked, texts, store, past, faults>>

StoreFails ==
  /\ store /\ Fault /\ store' = FALSE
  /\ UNCHANGED <<prompts, known, gate, texts, past>>
StoreReturns ==
  /\ ~store /\ store' = TRUE
  /\ UNCHANGED <<prompts, known, gate, texts, past, faults>>

Forget ==
  /\ known /\ Fault /\ known' = FALSE
  /\ observed' = {} /\ checked' = {} /\ idle' = FALSE /\ lastText' = {}
  /\ UNCHANGED <<prompts, writing, rows, store, past>>

Next ==
  \/ \E text \in Texts : UserPrompt(text)
  \/ \E x \in Subjects : AgentSays(x)
  \/ \E t \in Roles \X Subjects : Ingest(t)
  \/ \E f \in Files : Read(f) \/ Edit(f)
  \/ \E c \in Commands : Bash(c)
  \/ GoesIdle \/ StoreFails \/ StoreReturns \/ Forget

Spec == Init /\ [][Next]_vars

-----------------------------------------------------------------------------
(* Nothing the agent writes authorises a destructive command: the rules of *)
(* the gate let one through only after the user has named its pattern or   *)
(* given a command of it, in whatever turn (edit-gates.ts:135, 155).  The  *)
(* passes of a gate that fails open are not by its rules.                  *)
NoSelfAuthorisation == allowed \cap Commands # {} => named # {}

(* A turn of the session that names the pattern lets its commands through, *)
(* whoever wrote it (edit-gates.ts:12, 219).  It fails: see "Other         *)
(* divergences".                                                           *)
MentionSuffices ==
  known /\ store /\ (\E r \in Roles : <<r, Pattern>> \in rows) => \A c \in Commands : Authorised(c)

(* The first edit of a file is let through only after the agent has looked *)
(* at it or the user has named it (edit-gates.ts:4).  It fails: see "Other *)
(* divergences".                                                           *)
FirstEditInvestigated == allowed \cap Files \subseteq seen
=============================================================================
