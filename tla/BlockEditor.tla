----------------------------- MODULE BlockEditor ------------------------------
(***************************************************************************)
(* The editor of the content blocks of a lesson, BlockListEditor, as the   *)
(* course editor hosts it, with the requests it has under way and the      *)
(* rows the server keeps.                                                  *)
(*                                                                         *)
(* A block is created in the database when it is added, and is a draft     *)
(* until it is saved for the first time: cancelling a draft deletes it.    *)
(* One instance of the editor serves one lesson after the other; its       *)
(* requests are never cancelled, and their answers find whatever the       *)
(* editor shows by then.                                                   *)
(*                                                                         *)
(* The list on the screen comes from reloads of the lesson, which may show *)
(* a row before the answer to its creation and after its deletion: any row *)
(* of the lesson that ever existed can be on it.  What the page gives up   *)
(* has been processed by then or never is.                                 *)
(***************************************************************************)
EXTENDS Naturals, FiniteSets

CONSTANTS
  Blocks,     \* bound: the blocks that can be created
  Hosts,      \* the lessons of the course
  MaxFlight,  \* bound: requests under way at a time
  NoHost      \* not a lesson: the editor is closed, or the block is not created

ASSUME EditorAssumption == NoHost \notin Hosts /\ MaxFlight \in Nat

VARIABLES
  host,       \* hostId, or NoHost
  editing,    \* editingIds
  fresh,      \* freshDraftIds
  saving,     \* savingIds
  deleting,   \* deletingIds
  creating,   \* the flag of the same name
  flight,     \* the requests under way
  row,        \* row[b]: "none", "draft", "saved" or "gone"
  home,       \* home[b]: the lesson b is created for, or NoHost
  acked       \* history: blocks whose save was answered, not created since then

idVars == <<editing, fresh, saving, deleting>>
rowVars == <<row, home>>
editorVars == <<host, idVars, creating, flight, rowVars, acked>>

\* kind: a POST, a PATCH, the DELETE of the trash button, the DELETE of a
\* cancelled draft, or that of a draft whose lesson is left.  heard: the editor
\* that sent it is still there.
Kinds == {"create", "save", "trash", "cancel", "discard"}
Requests ==
  [kind : Kinds, block : Blocks, stage : {"sent", "done", "refused"}, heard : BOOLEAN]
Deletes == {"trash", "cancel", "discard"}
Request(kind, b) == [kind |-> kind, block |-> b, stage |-> "sent", heard |-> TRUE]

\* The same request twice counts as one (bound).
Send(requests) ==
  /\ flight' = flight \cup requests
  /\ Cardinality(flight \cup requests) <= MaxFlight
Sends(r) == r \notin flight /\ Send({r})

\* Nobody waits for the answer to the DELETE of an abandoned draft.
Staged(r, stage) ==
  flight' = (flight \ {r}) \cup
    {s \in {[r EXCEPT !.stage = stage]} : r.heard /\ r.kind # "discard"}

OnScreen(b) == host # NoHost /\ home[b] = host /\ row[b] # "none"

EditorInit ==
  /\ host = NoHost
  /\ editing = {} /\ fresh = {} /\ saving = {} /\ deleting = {} /\ creating = FALSE
  /\ flight = {}
  /\ row = [b \in Blocks |-> "none"] /\ home = [b \in Blocks |-> NoHost]
  /\ acked = {}
-------------------------------------------------------------------------------
(* The lesson that is edited. *)

\* A new editor.
OpenEditor(h) ==
  /\ host = NoHost
  /\ host' = h
  /\ editing' = {} /\ fresh' = {} /\ saving' = {} /\ deleting' = {} /\ creating' = FALSE
  /\ UNCHANGED <<flight, rowVars, acked>>

\* Mutant: the previous lesson's drafts stay where they are.
SwitchKeeping(h) ==
  /\ host # NoHost /\ h # host
  /\ host' = h
  /\ editing' = {} /\ fresh' = {} /\ saving' = {} /\ deleting' = {}
  /\ UNCHANGED <<creating, flight, rowVars, acked>>

\* onHostChanged, when nothing is edited or the author agrees to lose it.
Switch(h) ==
  /\ host # NoHost /\ h # host
  /\ host' = h
  /\ Send({Request("discard", b) : b \in fresh})
  /\ editing' = {} /\ fresh' = {} /\ saving' = {} /\ deleting' = {}
  /\ UNCHANGED <<creating, rowVars, acked>>

\* The preview, which asks nothing, or another page: the editor is destroyed.
CloseEditor ==
  /\ host # NoHost
  /\ host' = NoHost
  /\ flight' = {[r EXCEPT !.heard = FALSE] : r \in {q \in flight : q.stage = "sent"}}
  /\ editing' = {} /\ fresh' = {} /\ saving' = {} /\ deleting' = {} /\ creating' = FALSE
  /\ UNCHANGED <<rowVars, acked>>
-------------------------------------------------------------------------------
(* What the author does. *)

\* addBlock: one creation at a time.
AddBlock(b) ==
  /\ host # NoHost /\ ~creating
  /\ home[b] = NoHost
  /\ creating' = TRUE
  /\ home' = [home EXCEPT ![b] = host]
  /\ Sends(Request("create", b))
  /\ UNCHANGED <<host, idVars, row, acked>>

EditBlock(b) ==
  /\ OnScreen(b) /\ b \notin editing
  /\ editing' = editing \cup {b}
  /\ UNCHANGED <<host, fresh, saving, deleting, creating, flight, rowVars, acked>>

SaveBlock(b) ==
  /\ OnScreen(b) /\ b \in editing /\ b \notin saving
  /\ saving' = saving \cup {b}
  /\ Sends(Request("save", b))
  /\ UNCHANGED <<host, editing, fresh, deleting, creating, rowVars, acked>>

DeleteBlock(b, kind) ==
  /\ b \notin deleting
  /\ deleting' = deleting \cup {b}
  /\ Sends(Request(kind, b))
  /\ UNCHANGED <<host, editing, fresh, saving, creating, rowVars, acked>>

TrashBlock(b) == OnScreen(b) /\ DeleteBlock(b, "trash")

\* Disabled while the block is being saved.
CancelBlock(b) ==
  /\ OnScreen(b) /\ b \in editing /\ b \notin saving
  /\ \/ b \in fresh /\ DeleteBlock(b, "cancel")
     \/ /\ b \notin fresh
        /\ editing' = editing \ {b}
        /\ UNCHANGED <<host, fresh, saving, deleting, creating, flight, rowVars, acked>>
-------------------------------------------------------------------------------
(* The server.  A row that is gone is not found. *)

Process(r) ==
  /\ r \in flight /\ r.stage = "sent"
  /\ \/ /\ r.kind = "create" /\ row[r.block] = "none"
        /\ row' = [row EXCEPT ![r.block] = "draft"]
        /\ Staged(r, "done")
     \/ /\ r.kind = "save" /\ row[r.block] \in {"draft", "saved"}
        /\ row' = [row EXCEPT ![r.block] = "saved"]
        /\ Staged(r, "done")
     \/ /\ r.kind \in Deletes /\ row[r.block] \in {"draft", "saved"}
        /\ row' = [row EXCEPT ![r.block] = "gone"]
        /\ Staged(r, "done")
     \/ /\ r.kind # "create" /\ row[r.block] = "gone"
        /\ UNCHANGED row
        /\ Staged(r, "refused")
  /\ UNCHANGED <<host, idVars, creating, home, acked>>
-------------------------------------------------------------------------------
(* The answers. *)

Hears(r) == r \in flight /\ r.heard /\ flight' = flight \ {r}

CreateAnswered(r) ==
  /\ Hears(r) /\ r.kind = "create" /\ r.stage = "done"
  /\ creating' = FALSE
  /\ editing' = editing \cup {r.block} /\ fresh' = fresh \cup {r.block}
  /\ acked' = acked \ {r.block}
  /\ UNCHANGED <<host, saving, deleting, rowVars>>

\* Mutant: the block stays a draft.
SaveAnsweredFresh(r) ==
  /\ Hears(r) /\ r.kind = "save" /\ r.stage = "done"
  /\ saving' = saving \ {r.block} /\ editing' = editing \ {r.block}
  /\ acked' = acked \cup {r.block}
  /\ UNCHANGED <<host, fresh, deleting, creating, rowVars>>

BlockSaved(r) ==
  /\ Hears(r) /\ r.kind = "save" /\ r.stage = "done"
  /\ saving' = saving \ {r.block}
  /\ editing' = editing \ {r.block} /\ fresh' = fresh \ {r.block}
  /\ acked' = acked \cup {r.block}
  /\ UNCHANGED <<host, deleting, creating, rowVars>>

BlockDeleted(r) ==
  /\ Hears(r) /\ r.kind \in {"trash", "cancel"} /\ r.stage = "done"
  /\ deleting' = deleting \ {r.block}
  /\ editing' = editing \ {r.block} /\ fresh' = fresh \ {r.block}
  /\ UNCHANGED <<host, saving, creating, rowVars, acked>>

\* A request whose answer nobody waits for fails.
FailsUnheard(r) ==
  /\ r \in flight /\ (r.kind = "discard" \/ ~r.heard)
  /\ flight' = flight \ {r}
  /\ UNCHANGED <<host, idVars, creating, rowVars, acked>>

\* Refused, lost, or no answer within 30 s: a save or a deletion can be tried
\* again, and the block stays in edit mode.
RequestFails(r) ==
  /\ Hears(r) /\ r.kind # "discard"
  /\ creating' = (creating /\ r.kind # "create")
  /\ saving' = IF r.kind = "save" THEN saving \ {r.block} ELSE saving
  /\ deleting' = IF r.kind \in Deletes THEN deleting \ {r.block} ELSE deleting
  /\ UNCHANGED <<host, editing, fresh, rowVars, acked>>

EditorNext ==
  \/ \E h \in Hosts : OpenEditor(h) \/ Switch(h)
  \/ CloseEditor
  \/ \E b \in Blocks :
       AddBlock(b) \/ EditBlock(b) \/ SaveBlock(b) \/ TrashBlock(b) \/ CancelBlock(b)
  \/ \E r \in flight :
       \/ Process(r) \/ CreateAnswered(r) \/ BlockSaved(r) \/ BlockDeleted(r)
       \/ FailsUnheard(r) \/ RequestFails(r)

EditorSpec == EditorInit /\ [][EditorNext]_editorVars
-------------------------------------------------------------------------------
EditorTypeOK ==
  /\ host \in Hosts \cup {NoHost}
  /\ editing \subseteq Blocks /\ fresh \subseteq Blocks
  /\ saving \subseteq Blocks /\ deleting \subseteq Blocks
  /\ creating \in BOOLEAN
  /\ flight \subseteq Requests
  /\ row \in [Blocks -> {"none", "draft", "saved", "gone"}]
  /\ home \in [Blocks -> Hosts \cup {NoHost}]
  /\ acked \subseteq Blocks

\* The editor knows that b is a draft, or is to hear of it, or it is being deleted.
Minded(b) ==
  \/ b \in fresh
  \/ \E r \in flight :
       /\ r.block = b
       /\ r.kind = "create" \/ (r.kind \in Deletes /\ r.stage = "sent")
Ghost(b) == row[b] = "draft" /\ ~Minded(b)

\* A row that was never saved stays behind unknown to the editor only when the
\* editor is closed over it or is gone when the row is created, the answer to its
\* creation is lost, or a deletion fails after the lesson was left: not when
\* lessons are switched, saves fail, or answers come after a switch.
DraftsAccounted ==
  [][\A b \in Blocks : Ghost(b)' /\ ~Ghost(b) =>
       \/ CloseEditor
       \/ \E r \in flight :
            /\ r.block = b
            /\ \/ r.kind = "create" /\ ~r.heard /\ Process(r)
               \/ FailsUnheard(r) \/ RequestFails(r)]_editorVars

\* Cancelling an edit and leaving a lesson delete no block whose save was
\* answered since the page heard of its creation, however late answers come.
SavedStays ==
  [][\A r \in flight' \ flight :
       r.kind \in {"cancel", "discard"} /\ r.stage = "sent" /\ r.heard =>
         r.block \notin acked]_editorVars
===============================================================================
