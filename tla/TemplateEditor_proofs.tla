------------------------ MODULE TemplateEditor_proofs -------------------------
(***************************************************************************)
(* Proofs about the form of a quiz template.                               *)
(***************************************************************************)
EXTENDS TemplateEditor, TLAPS

-------------------------------------------------------------------------------
(* What the operators return. *)

LEMMA Constants ==
  /\ MaxTemplates \in Nat \ {0} /\ MaxRows \in Nat
  /\ 0 \notin Templates /\ 0 \notin RowIds
  /\ Templates \subseteq Nat /\ RowIds \subseteq Nat
  /\ Templates \subseteq 0..MaxTemplates /\ RowIds \subseteq 0..MaxRows
  BY TemplateAssumption DEF Templates, RowIds

LEMMA EntriesInRange ==
  ASSUME NEW list \in Seq(Entries), NEW i \in DOMAIN list
  PROVE  /\ list[i] \in Entries /\ i \in 1..Len(list)
         /\ list[i].question \in Library /\ list[i].id \in 0..MaxRows /\ list[i].order \in Nat
  <1>1. i \in 1..Len(list)
    OBVIOUS
  <1>2. list[i] \in Entries
    BY <1>1
  <1>3. QED
    BY <1>1, <1>2 DEF Entries

LEMMA SetsOfList ==
  ASSUME NEW list \in Seq(Entries)
  PROVE  Asked(list) \subseteq Library /\ Known(list) \subseteq RowIds
  <1>1. Asked(list) \subseteq Library
    BY EntriesInRange DEF Asked
  <1>2. Known(list) \subseteq RowIds
    BY EntriesInRange, Constants DEF Known, RowIds
  <1>3. QED
    BY <1>1, <1>2

LEMMA RenumberFacts ==
  ASSUME NEW list \in Seq(Entries)
  PROVE  /\ Renumber(list) \in Seq(Entries) /\ DOMAIN Renumber(list) = DOMAIN list
         /\ \A i \in DOMAIN list :
              /\ Renumber(list)[i].question = list[i].question
              /\ Renumber(list)[i].id = list[i].id
  <1>1. DOMAIN list = 1..Len(list) /\ Len(list) \in Nat
    OBVIOUS
  <1>2. \A i \in 1..Len(list) : [list[i] EXCEPT !.order = i] \in Entries
    <2> TAKE i \in 1..Len(list)
    <2>1. list[i] \in Entries /\ i \in Nat
      BY <1>1
    <2>2. QED
      BY <2>1 DEF Entries
  <1>3. \A i \in DOMAIN list :
          /\ [list[i] EXCEPT !.order = i].question = list[i].question
          /\ [list[i] EXCEPT !.order = i].id = list[i].id
    BY EntriesInRange DEF Entries
  <1>4. Renumber(list) = [i \in 1..Len(list) |-> [list[i] EXCEPT !.order = i]]
    BY <1>1 DEF Renumber
  <1>5. Renumber(list) \in Seq(Entries) /\ DOMAIN Renumber(list) = DOMAIN list
    BY <1>1, <1>2, <1>4
  <1>6. QED
    BY <1>1, <1>3, <1>4, <1>5

\* An addition that was answered: its item gets the id of the new row.
Numbered(save, k) == [save EXCEPT !.next = @ + 1, !.plan[save.next].id = k]

LEMMA NumberedFacts ==
  ASSUME NEW save \in Saving, NEW k \in RowIds, save.next \in 1..Len(save.plan)
  PROVE  /\ Numbered(save, k) \in Saving /\ Numbered(save, k).next = save.next + 1
         /\ Numbered(save, k).template = save.template
         /\ Numbered(save, k).creates = save.creates
         /\ Numbered(save, k).step = save.step /\ Numbered(save, k).removed = save.removed
         /\ Numbered(save, k).heard = save.heard /\ Numbered(save, k).again = save.again
         /\ DOMAIN Numbered(save, k).plan = DOMAIN save.plan
         /\ Len(Numbered(save, k).plan) = Len(save.plan)
         /\ \A i \in DOMAIN save.plan :
              /\ Numbered(save, k).plan[i].question = save.plan[i].question
              /\ Numbered(save, k).plan[i].order = save.plan[i].order
              /\ Numbered(save, k).plan[i].id = IF i = save.next THEN k ELSE save.plan[i].id
  <1> DEFINE n == save.next
             new == Numbered(save, k)
  <1>0. save.next \in Nat \ {0}
    BY DEF Saving
  <1> DEFINE item == [save.plan[n] EXCEPT !.id = k]
             list == [save.plan EXCEPT ![n] = item]
  <1>1. save.plan \in Seq(Entries) /\ n \in DOMAIN save.plan
    BY DEF Saving
  <1>2. /\ item \in Entries
        /\ item.question = save.plan[n].question /\ item.order = save.plan[n].order /\ item.id = k
    BY <1>1, EntriesInRange, Constants DEF Entries
  <1> HIDE DEF item
  <1>3. list \in Seq(Entries) /\ DOMAIN list = DOMAIN save.plan /\ Len(list) = Len(save.plan)
    BY <1>1, <1>2
  <1>4. \A i \in DOMAIN save.plan : list[i] = IF i = n THEN item ELSE save.plan[i]
    BY <1>1
  <1>5. new = [save EXCEPT !.next = @ + 1, !.plan = list]
    BY DEF item, Saving, Numbered
  <1> HIDE DEF list, new
  <1>6. save.next + 1 \in Nat \ {0}
    BY <1>0
  <1>7. /\ new.plan = list /\ new.next = save.next + 1
        /\ new.template = save.template /\ new.creates = save.creates /\ new.step = save.step
        /\ new.removed = save.removed /\ new.heard = save.heard /\ new.again = save.again
    BY <1>5 DEF Saving
  <1>8. new \in Saving
    BY <1>3, <1>5, <1>6 DEF Saving
  <1>9. QED
    BY <1>2, <1>3, <1>4, <1>7, <1>8 DEF new

LEMMA WorkingTyped ==
  ASSUME TemplateTypeOK, NEW c \in Chains, Working(c)
  PROVE  /\ chain[c] \in Saving /\ chain[c].template \in 0..MaxTemplates
         /\ chain[c].creates \in BOOLEAN /\ chain[c].heard \in BOOLEAN /\ chain[c].again \in BOOLEAN
         /\ chain[c].step \in {"template", "questions", "cleanup"}
         /\ chain[c].removed \subseteq RowIds /\ chain[c].plan \in Seq(Entries)
         /\ chain[c].next \in Nat \ {0}
  <1>1. chain[c] \in Saving
    BY DEF TemplateTypeOK, Working
  <1>2. QED
    BY <1>1 DEF Saving

LEMMA AtWorks == ASSUME NEW c \in Chains, NEW step, At(c, step) PROVE Working(c) /\ chain[c].step = step
  BY DEF At

LEMMA NoChainIsNoSave == NoChain \notin Saving
  <1>1. NoChain.step = "none"
    BY DEF NoChain
  <1>2. QED
    BY <1>1 DEF Saving

\* What Begun and Unheard leave of a save.
LEMMA BegunFacts ==
  ASSUME TemplateTypeOK, NEW save \in Saving
  PROVE  /\ Begun(save) \in Saving
         /\ Begun(save).plan = selected /\ Begun(save).removed = original \ Known(selected)
         /\ Begun(save).template = save.template /\ Begun(save).creates = save.creates
         /\ Begun(save).step = save.step /\ Begun(save).next = save.next
         /\ Begun(save).heard = save.heard /\ Begun(save).again = save.again
  <1>1. selected \in Seq(Entries) /\ original \ Known(selected) \subseteq RowIds
    BY DEF TemplateTypeOK
  <1>2. QED
    BY <1>1 DEF Begun, Saving

LEMMA UnheardFacts ==
  ASSUME TemplateTypeOK, NEW save \in Saving
  PROVE  /\ Unheard(save) \in Saving /\ Unheard(save) # NoChain
         /\ Unheard(save).template = save.template /\ Unheard(save).creates = save.creates
         /\ Unheard(save).step = save.step /\ Unheard(save).next = save.next
         /\ Unheard(save).heard = FALSE /\ Unheard(save).again = save.again
         /\ save.heard /\ save.step = "template" =>
              /\ Unheard(save).plan = selected
              /\ Unheard(save).removed = original \ Known(selected)
         /\ ~(save.heard /\ save.step = "template") =>
              Unheard(save).plan = save.plan /\ Unheard(save).removed = save.removed
  <1>1. save # NoChain
    BY NoChainIsNoSave
  <1>2. CASE save.heard /\ save.step = "template"
    <2> DEFINE old == Begun(save)
               new == [old EXCEPT !.heard = FALSE]
    <2>1. Unheard(save) = new
      BY <1>1, <1>2 DEF Unheard
    <2>2. /\ old \in Saving /\ old.plan = selected /\ old.removed = original \ Known(selected)
          /\ old.template = save.template /\ old.creates = save.creates
          /\ old.step = save.step /\ old.next = save.next /\ old.again = save.again
      BY BegunFacts
    <2> HIDE DEF old
    <2>3. /\ new \in Saving /\ new.heard = FALSE
          /\ new.plan = old.plan /\ new.removed = old.removed
          /\ new.template = old.template /\ new.creates = old.creates
          /\ new.step = old.step /\ new.next = old.next /\ new.again = old.again
      BY <2>2 DEF Saving
    <2> HIDE DEF new
    <2>4. QED
      BY <1>2, <2>1, <2>2, <2>3, NoChainIsNoSave
  <1>3. CASE ~(save.heard /\ save.step = "template")
    <2>1. Unheard(save) = [save EXCEPT !.heard = FALSE]
      BY <1>1, <1>3 DEF Unheard
    <2>2. Unheard(save) \in Saving
      BY <2>1 DEF Saving
    <2>3. QED
      BY <1>3, <2>1, <2>2, NoChainIsNoSave DEF Saving
  <1>4. QED
    BY <1>2, <1>3

LEMMA UnheardNothing == Unheard(NoChain) = NoChain
  BY DEF Unheard

-------------------------------------------------------------------------------
(* Types, and where a save stands: only a template that is to be created has *)
(* no number yet, and what the form hears is the save that it began.         *)

Placed(c) ==
  Working(c) =>
    IF chain[c].creates /\ chain[c].step = "template"
    THEN chain[c].template = 0
    ELSE chain[c].template \in Templates /\ (chain[c].step = "cleanup" => chain[c].creates)
Attached(c) ==
  Working(c) /\ chain[c].heard =>
    /\ form = IF chain[c].creates THEN "create" ELSE "edit"
    /\ ~chain[c].creates => chain[c].template = target
    /\ IF chain[c].step = "cleanup" THEN broken ELSE chain[c].again = broken
FormInv ==
  /\ form = "edit" => target \in Templates
  /\ form # "edit" => target = 0 /\ original = {}
PlaceInv ==
  /\ FormInv
  /\ \A c \in Chains : Placed(c) /\ Attached(c)
  /\ \A c, d \in Chains :
       Working(c) /\ Working(d) /\ chain[c].heard /\ chain[d].heard => c = d

\* The part of the types that is about the form and the saves, and the rest.
FormType ==
  /\ form \in {"closed", "create", "edit"} /\ target \in 0..MaxTemplates
  /\ selected \in Seq(Entries) /\ original \subseteq RowIds
  /\ same \subseteq Library /\ broken \in BOOLEAN
  /\ chain \in [Chains -> Saving \cup {NoChain}]
TableType ==
  /\ template \in [Templates -> {"none", "there", "gone"}]
  /\ qrow \in [RowIds -> Rows \cup {Unmade, Deleted}]
HistoryType ==
  finished \subseteq Templates /\ kept \subseteq RowIds /\ crossed \subseteq Templates

LEMMA TypeParts == TemplateTypeOK <=> FormType /\ TableType /\ HistoryType
  BY DEF TemplateTypeOK, FormType, TableType, HistoryType

LEMMA EmptyList == << >> \in Seq(Entries) /\ DOMAIN << >> = {} /\ Known(<< >>) = {} /\ Asked(<< >>) = {}
  BY DEF Known, Asked

\* All saves, seen from a form that is closed.
LEMMA UnheardChains ==
  ASSUME TemplateTypeOK
  PROVE  \A d \in Chains : Unheard(chain[d]) \in Saving \cup {NoChain}
  <1> TAKE d \in Chains
  <1>1. chain[d] \in Saving \/ chain[d] = NoChain
    BY DEF TemplateTypeOK
  <1>2. CASE chain[d] = NoChain
    BY <1>2, UnheardNothing
  <1>3. CASE chain[d] \in Saving
    BY <1>3, UnheardFacts
  <1>4. QED
    BY <1>1, <1>2, <1>3

LEMMA CloseFormType ==
  ASSUME CloseForm
  PROVE  /\ form' = "closed" /\ target' = 0 /\ selected' = << >> /\ original' = {}
         /\ same' = {} /\ broken' = FALSE
         /\ selected' \in Seq(Entries) /\ target' \in 0..MaxTemplates
  BY EmptyList, Constants DEF CloseForm

LEMMA ProceedsType ==
  ASSUME TemplateTypeOK, NEW c \in Chains, NEW save \in Saving, save.template \in Templates,
         NEW list \in Seq(Entries), NEW objects \in SUBSET Library,
         Proceeds(c, save, list, objects)
  PROVE  FormType' /\ finished' \subseteq Templates /\ kept' \subseteq RowIds
  <1>1. CASE Complete(save) /\ Finish(c, save)
    <2>1. /\ save.plan \in Seq(Entries) /\ Known(save.plan) \subseteq RowIds
          /\ Renumber(save.plan) \in Seq(Entries)
      <3>1. save.plan \in Seq(Entries)
        BY DEF Saving
      <3>2. QED
        BY <3>1, SetsOfList, RenumberFacts
    <2>2. finished' \subseteq Templates /\ kept' \subseteq RowIds
      BY <1>1, <2>1 DEF Finish, TemplateTypeOK
    <2>3. FormType'
      <3>1. CASE save.creates
        <4>1. CloseForm /\ chain' = [d \in Chains |-> IF d = c THEN NoChain ELSE Unheard(chain[d])]
          BY <1>1, <3>1 DEF Finish
        <4>2. QED
          BY <4>1, CloseFormType, UnheardChains DEF FormType
      <3>2. CASE ~save.creates
        <4>1. /\ chain' = [chain EXCEPT ![c] = NoChain]
              /\ \/ /\ selected' = Renumber(save.plan) /\ same' = {}
                    /\ original' = Known(save.plan)
                    /\ UNCHANGED <<form, target, broken>>
                 \/ UNCHANGED formVars
          BY <1>1, <3>2 DEF Finish, Ends, MarkBaseline
        <4>2. QED
          BY <4>1, <2>1 DEF FormType, TemplateTypeOK, formVars
      <3>3. QED
        BY <3>1, <3>2
    <2>4. QED
      BY <2>2, <2>3
  <1>2. CASE /\ chain' = [chain EXCEPT ![c] = save]
             /\ selected' = list /\ same' = objects
             /\ UNCHANGED <<form, target, original, broken, finished, kept>>
    BY <1>2 DEF FormType, TemplateTypeOK
  <1>3. QED
    BY <1>1, <1>2 DEF Proceeds

LEMMA BreaksType ==
  ASSUME TemplateTypeOK, NEW c \in Chains, Working(c), SaveBreaks(c)
  PROVE  FormType'
  <1>1. /\ chain[c] \in Saving /\ chain[c].heard \in BOOLEAN
        /\ [chain[c] EXCEPT !.step = "cleanup", !.removed = {}, !.plan = << >>] \in Saving
    <2>1. chain[c] \in Saving
      BY WorkingTyped
    <2>2. QED
      BY <2>1, EmptyList DEF Saving
  <1>2. chain' \in [Chains -> Saving \cup {NoChain}]
    <2>1. \/ chain' = [chain EXCEPT ![c].step = "cleanup", ![c].removed = {}, ![c].plan = << >>]
          \/ chain' = [chain EXCEPT ![c] = NoChain]
      BY DEF SaveBreaks, Ends
    <2>2. [chain EXCEPT ![c].step = "cleanup", ![c].removed = {}, ![c].plan = << >>] =
            [chain EXCEPT ![c] = [chain[c] EXCEPT !.step = "cleanup", !.removed = {}, !.plan = << >>]]
      BY <1>1 DEF TemplateTypeOK
    <2>3. QED
      BY <1>1, <2>1, <2>2 DEF TemplateTypeOK
  <1>3. /\ broken' \in BOOLEAN /\ same' \subseteq Library
        /\ UNCHANGED <<form, target, selected, original>>
    BY <1>1 DEF SaveBreaks, TemplateTypeOK
  <1>4. QED
    BY <1>2, <1>3 DEF FormType, TemplateTypeOK

\* The rows of a template are rows.
LEMMA RowsAreRows ==
  ASSUME TableType, NEW t \in Templates, NEW k \in RowsOf(t)
  PROVE  k \in RowIds /\ qrow[k] \in Rows /\ qrow[k].template = t
                      /\ qrow[k].question \in Library /\ qrow[k].order \in Nat
  <1>1. k \in RowIds /\ qrow[k].template = t
    BY DEF RowsOf
  <1>2. qrow[k] # Unmade /\ qrow[k] # Deleted
    BY <1>1, Constants DEF Unmade, Deleted
  <1>3. qrow[k] \in Rows
    BY <1>1, <1>2 DEF TableType
  <1>4. QED
    BY <1>1, <1>3 DEF Rows

LEMMA WriteType ==
  ASSUME TableType, NEW t \in Templates, NEW k \in RowIds, NEW item \in Entries, WriteRow(t, k, item)
  PROVE  TableType'
  <1>1. [template |-> t, question |-> item.question, order |-> item.order] \in Rows
    BY DEF Entries, Rows
  <1>2. QED
    BY <1>1 DEF WriteRow, TableType

LEMMA UpdateType ==
  ASSUME TableType, NEW t \in Templates, NEW item \in Entries, UpdateRow(t, item)
  PROVE  TableType'
  <1>1. item.id \in RowIds /\ WriteRow(t, item.id, item)
    BY DEF UpdateRow, RowsOf
  <1>2. QED
    BY <1>1, WriteType

LEMMA CreateType ==
  ASSUME TableType, NEW t \in Templates, NEW k \in RowIds, NEW item \in Entries, CreateRow(t, k, item)
  PROVE  TableType'
  BY WriteType DEF CreateRow

LEMMA DestroyRowType ==
  ASSUME TableType, NEW t, NEW k, DestroyRow(t, k)
  PROVE  TableType'
  BY DEF DestroyRow, TableType

LEMMA CreateTemplateType ==
  ASSUME TableType, NEW t \in Templates, CreateTemplate(t)
  PROVE  TableType'
  BY DEF CreateTemplate, TableType

LEMMA DestroyTemplateType ==
  ASSUME TableType, NEW t, DestroyTemplate(t)
  PROVE  TableType'
  BY DEF DestroyTemplate, TableType

\* The item whose turn it is.
LEMMA SendingItem ==
  ASSUME TemplateTypeOK, NEW c \in Chains, Sending(c)
  PROVE  /\ Working(c) /\ chain[c].step = "questions" /\ chain[c].removed = {}
         /\ chain[c].next \in 1..Len(chain[c].plan) /\ chain[c].next \in DOMAIN chain[c].plan
         /\ Item(c) = chain[c].plan[chain[c].next]
         /\ Item(c) \in Entries /\ Item(c).id \in 0..MaxRows /\ Item(c).question \in Library
         /\ Item(c).order \in Nat
  <1>1. Working(c) /\ chain[c].step = "questions" /\ chain[c].removed = {}
        /\ chain[c].next <= Len(chain[c].plan)
    BY DEF Sending, At
  <1>2. chain[c].plan \in Seq(Entries) /\ chain[c].next \in Nat \ {0}
    BY <1>1, WorkingTyped
  <1>3. chain[c].next \in 1..Len(chain[c].plan) /\ chain[c].next \in DOMAIN chain[c].plan
    BY <1>1, <1>2
  <1>4. QED
    BY <1>1, <1>2, <1>3, EntriesInRange DEF Item

\* The list when the answer to an addition has come.
LEMMA MarkedFacts ==
  ASSUME TemplateTypeOK, NEW c \in Chains, NEW k \in RowIds
  PROVE  /\ Marked(c, k) \in Seq(Entries) /\ DOMAIN Marked(c, k) = DOMAIN selected
         /\ \A i \in DOMAIN selected :
              /\ Marked(c, k)[i].question = selected[i].question
              /\ Marked(c, k)[i].id = selected[i].id
                 \/ /\ Marked(c, k)[i].id = k
                    /\ chain[c].heard /\ selected[i].question = Item(c).question
  <1> DEFINE n == Len(selected)
             item(i) ==
               IF chain[c].heard /\ selected[i].question = Item(c).question /\ Item(c).question \in same
               THEN [selected[i] EXCEPT !.id = k] ELSE selected[i]
  <1>1. selected \in Seq(Entries) /\ n \in Nat /\ DOMAIN selected = 1..n
    BY DEF TemplateTypeOK
  <1>2. \A i \in 1..n : /\ selected[i] \in Entries
                        /\ [selected[i] EXCEPT !.id = k] \in Entries
                        /\ [selected[i] EXCEPT !.id = k].question = selected[i].question
                        /\ [selected[i] EXCEPT !.id = k].id = k
    <2> TAKE i \in 1..n
    <2>1. selected[i] \in Entries /\ k \in 0..MaxRows
      BY <1>1, Constants
    <2>2. QED
      BY <2>1 DEF Entries
  <1>3. Marked(c, k) = [i \in 1..n |-> item(i)]
    BY <1>1 DEF Marked
  <1>4. \A i \in 1..n : /\ item(i) \in Entries /\ item(i).question = selected[i].question
                        /\ item(i).id = selected[i].id
                           \/ /\ item(i).id = k
                              /\ chain[c].heard /\ selected[i].question = Item(c).question
    BY <1>2
  <1> HIDE DEF item
  <1>5. QED
    BY <1>1, <1>3, <1>4

\* What a save is when its template is there.
Start(c, t) ==
  [(IF chain[c].heard THEN Begun(chain[c]) ELSE chain[c])
     EXCEPT !.template = t, !.step = "questions"]

LEMMA StartFacts ==
  ASSUME TemplateTypeOK, NEW c \in Chains, At(c, "template"), NEW t \in Templates
  PROVE  /\ Start(c, t) \in Saving /\ Start(c, t).template = t /\ Start(c, t).step = "questions"
         /\ Start(c, t).creates = chain[c].creates /\ Start(c, t).next = chain[c].next
         /\ Start(c, t).heard = chain[c].heard /\ Start(c, t).again = chain[c].again
         /\ chain[c].heard =>
              Start(c, t).plan = selected /\ Start(c, t).removed = original \ Known(selected)
         /\ ~chain[c].heard =>
              Start(c, t).plan = chain[c].plan /\ Start(c, t).removed = chain[c].removed
  <1> DEFINE save == IF chain[c].heard THEN Begun(chain[c]) ELSE chain[c]
             new == [save EXCEPT !.template = t, !.step = "questions"]
  <1>1. chain[c] \in Saving
    BY WorkingTyped, AtWorks
  <1>2. /\ save \in Saving
        /\ save.creates = chain[c].creates /\ save.next = chain[c].next
        /\ save.template = chain[c].template
        /\ save.heard = chain[c].heard /\ save.again = chain[c].again
        /\ chain[c].heard =>
             save.plan = selected /\ save.removed = original \ Known(selected)
        /\ ~chain[c].heard =>
             save.plan = chain[c].plan /\ save.removed = chain[c].removed
    BY <1>1, BegunFacts
  <1>3. t \in 0..MaxTemplates
    BY Constants
  <1>4. Start(c, t) = new
    BY DEF Start
  <1> HIDE DEF save
  <1>5. /\ new \in Saving /\ new.template = t /\ new.step = "questions"
        /\ new.creates = save.creates /\ new.next = save.next
        /\ new.heard = save.heard /\ new.again = save.again
        /\ new.plan = save.plan /\ new.removed = save.removed
    BY <1>2, <1>3 DEF Saving
  <1> HIDE DEF new
  <1>6. QED
    BY <1>2, <1>4, <1>5

\* The save an answer leads to, by the kind of the answer.
Removed(c, k) == [chain[c] EXCEPT !.removed = @ \ {k}]
Updated(c) == [chain[c] EXCEPT !.next = @ + 1]

LEMMA RemovedFacts ==
  ASSUME NEW c, chain[c] \in Saving, NEW k
  PROVE  /\ Removed(c, k) \in Saving /\ Removed(c, k).removed = chain[c].removed \ {k}
         /\ Removed(c, k).template = chain[c].template /\ Removed(c, k).creates = chain[c].creates
         /\ Removed(c, k).step = chain[c].step /\ Removed(c, k).plan = chain[c].plan
         /\ Removed(c, k).next = chain[c].next /\ Removed(c, k).heard = chain[c].heard
         /\ Removed(c, k).again = chain[c].again
  BY DEF Removed, Saving

LEMMA UpdatedFacts ==
  ASSUME NEW c, chain[c] \in Saving
  PROVE  /\ Updated(c) \in Saving /\ Updated(c).next = chain[c].next + 1
         /\ Updated(c).template = chain[c].template /\ Updated(c).creates = chain[c].creates
         /\ Updated(c).step = chain[c].step /\ Updated(c).plan = chain[c].plan
         /\ Updated(c).removed = chain[c].removed /\ Updated(c).heard = chain[c].heard
         /\ Updated(c).again = chain[c].again
  BY DEF Updated, Saving

LEMMA AnsweredSave ==
  ASSUME TemplateTypeOK, NEW c \in Chains,
         RemovalAnswered(c) \/ UpdateAnswered(c) \/ AdditionAnswered(c)
  PROVE  /\ Working(c) /\ chain[c].step = "questions" /\ UNCHANGED <<template, crossed>>
         /\ \E save \in Saving :
              /\ save.template = chain[c].template /\ save.creates = chain[c].creates
              /\ save.step = "questions" /\ save.heard = chain[c].heard
              /\ save.again = chain[c].again
              /\ \E list, objects : Proceeds(c, save, list, objects)
  <1>1. Working(c) /\ chain[c].step = "questions" /\ UNCHANGED <<template, crossed>>
    BY DEF RemovalAnswered, UpdateAnswered, AdditionAnswered, Removing, Sending, At,
           DestroyRow, UpdateRow, CreateRow, WriteRow
  <1>2. chain[c] \in Saving
    BY <1>1, WorkingTyped
  <1>3. CASE RemovalAnswered(c)
    <2>1. PICK k \in RowIds : Proceeds(c, Removed(c, k), selected, same)
      BY <1>3 DEF RemovalAnswered, Removed
    <2>2. QED
      BY <1>1, <1>2, <2>1, RemovedFacts
  <1>4. CASE UpdateAnswered(c)
    <2>1. Proceeds(c, Updated(c), selected, same)
      BY <1>4 DEF UpdateAnswered, Updated
    <2>2. QED
      BY <1>1, <1>2, <2>1, UpdatedFacts
  <1>5. CASE AdditionAnswered(c)
    <2>1. PICK k \in RowIds : Sending(c) /\ Proceeds(c, Numbered(chain[c], k), Marked(c, k), same)
      BY <1>5 DEF AdditionAnswered, Numbered
    <2>2. chain[c].next \in 1..Len(chain[c].plan)
      BY <2>1, SendingItem
    <2>3. QED
      BY <1>1, <1>2, <2>1, <2>2, NumberedFacts
  <1>6. QED
    BY <1>3, <1>4, <1>5

-------------------------------------------------------------------------------
(* The list: no two items have a question in common, or a row. *)

Apart(list) ==
  \A i, j \in DOMAIN list :
    i # j => /\ list[i].question # list[j].question
             /\ list[i].id = list[j].id => list[i].id = 0
\* Every row of the one list is, for the same question, a row of the other.
Within(list, whole) ==
  \A i \in DOMAIN list :
    list[i].id # 0 =>
      \E j \in DOMAIN whole :
        whole[j].id = list[i].id /\ whole[j].question = list[i].question

LEMMA RenumberKeeps ==
  ASSUME NEW list \in Seq(Entries)
  PROVE  /\ Apart(list) => Apart(Renumber(list))
         /\ Within(Renumber(list), list)
         /\ Known(Renumber(list)) = Known(list)
  <1>1. /\ DOMAIN Renumber(list) = DOMAIN list
        /\ \A i \in DOMAIN list :
             /\ Renumber(list)[i].question = list[i].question
             /\ Renumber(list)[i].id = list[i].id
    BY RenumberFacts
  <1>2. Apart(list) => Apart(Renumber(list))
    BY <1>1 DEF Apart
  <1>3. Within(Renumber(list), list)
    BY <1>1 DEF Within
  <1>4. Known(Renumber(list)) = Known(list)
    BY <1>1 DEF Known
  <1>5. QED
    BY <1>2, <1>3, <1>4

LEMMA RenumberWithin ==
  ASSUME NEW list \in Seq(Entries), NEW whole, Within(list, whole)
  PROVE  /\ Renumber(list) \in Seq(Entries) /\ Within(Renumber(list), whole)
         /\ Apart(list) => Apart(Renumber(list))
  <1>1. /\ DOMAIN Renumber(list) = DOMAIN list
        /\ \A i \in DOMAIN list :
             /\ Renumber(list)[i].question = list[i].question
             /\ Renumber(list)[i].id = list[i].id
    BY RenumberFacts
  <1>2. Within(Renumber(list), whole)
    BY <1>1 DEF Within
  <1>3. QED
    BY <1>2, RenumberFacts, RenumberKeeps

LEMMA EditFacts ==
  ASSUME TemplateTypeOK, EditStep
  PROVE  /\ form # "closed"
         /\ UNCHANGED <<form, target, original, broken, chain, template, qrow,
                        finished, kept, crossed>>
         /\ selected' \in Seq(Entries) /\ same' \subseteq Library
         /\ Within(selected', selected)
         /\ Apart(selected) => Apart(selected')
  <1>1. Edits
    BY DEF EditStep, AddExisting, RemoveItem, MoveItem, SetWeight, Clear
  <1>2. /\ form # "closed"
        /\ UNCHANGED <<form, target, original, broken, chain, template, qrow,
                       finished, kept, crossed>>
    BY <1>1 DEF Edits, tableVars, historyVars
  <1>3. selected \in Seq(Entries) /\ same \subseteq Library
    BY DEF TemplateTypeOK
  <1> DEFINE n == Len(selected)
  <1>4. n \in Nat /\ DOMAIN selected = 1..n /\ selected \in [1..n -> Entries]
    BY <1>3
  <1> SUFFICES /\ selected' \in Seq(Entries) /\ same' \subseteq Library
               /\ Within(selected', selected)
               /\ Apart(selected) => Apart(selected')
    BY <1>2
  <1>5. ASSUME NEW q \in Library, AddExisting(q)
        PROVE  /\ selected' \in Seq(Entries) /\ same' \subseteq Library
               /\ Within(selected', selected)
               /\ Apart(selected) => Apart(selected')
    <2> DEFINE item == [question |-> q, id |-> 0, order |-> n + 1]
    <2>1. item \in Entries /\ item.question = q /\ item.id = 0
      BY <1>4, Constants DEF Entries
    <2>2. selected' = Append(selected, item) /\ same' = same /\ q \notin Asked(selected)
      BY <1>5 DEF AddExisting
    <2> HIDE DEF item
    <2>3. /\ selected' \in Seq(Entries) /\ DOMAIN selected' = 1..(n + 1)
          /\ \A i \in 1..n : selected'[i] = selected[i]
          /\ selected'[n + 1] = item
      BY <1>3, <1>4, <2>1, <2>2
    <2>4. \A i \in 1..(n + 1) : i \in 1..n \/ i = n + 1
      BY <1>4
    <2>5. Within(selected', selected)
      BY <1>4, <2>1, <2>3, <2>4 DEF Within
    <2>6. \A i \in 1..n : selected[i].question # q
      BY <1>4, <2>2 DEF Asked
    <2>7. Apart(selected) => Apart(selected')
      BY <1>4, <2>1, <2>3, <2>4, <2>6 DEF Apart
    <2>8. QED
      BY <1>3, <2>2, <2>3, <2>5, <2>7
  <1>6. ASSUME NEW i \in DOMAIN selected, RemoveItem(i)
        PROVE  /\ selected' \in Seq(Entries) /\ same' \subseteq Library
               /\ Within(selected', selected)
               /\ Apart(selected) => Apart(selected')
    <2> DEFINE rest == [j \in 1..(n - 1) |-> IF j < i THEN selected[j] ELSE selected[j + 1]]
    <2>1. selected' = Renumber(rest) /\ same' = {}
      BY <1>6 DEF RemoveItem
    <2>2. rest \in [1..(n - 1) -> Entries] /\ n - 1 \in Nat
      BY <1>4
    <2>3. rest \in Seq(Entries) /\ DOMAIN rest = 1..(n - 1)
      BY <2>2
    <2>4. Within(rest, selected)
      BY <1>4, <2>3 DEF Within
    <2>5. Apart(selected) => Apart(rest)
      <3> SUFFICES ASSUME Apart(selected), NEW j \in 1..(n - 1), NEW k \in 1..(n - 1), j # k
                   PROVE  /\ rest[j].question # rest[k].question
                          /\ rest[j].id = rest[k].id => rest[j].id = 0
        BY <2>3 DEF Apart
      <3> DEFINE a == IF j < i THEN j ELSE j + 1
                 b == IF k < i THEN k ELSE k + 1
      <3>1. a \in 1..n /\ b \in 1..n /\ a # b
        BY <1>4
      <3>2. rest[j] = selected[a] /\ rest[k] = selected[b]
        OBVIOUS
      <3>3. QED
        BY <1>4, <3>1, <3>2 DEF Apart
    <2> HIDE DEF rest
    <2>6. QED
      BY <2>1, <2>3, <2>4, <2>5, RenumberWithin
  <1>7. ASSUME NEW i \in DOMAIN selected, MoveItem(i)
        PROVE  /\ selected' \in Seq(Entries) /\ same' \subseteq Library
               /\ Within(selected', selected)
               /\ Apart(selected) => Apart(selected')
    <2> DEFINE moved == [selected EXCEPT ![i] = selected[i - 1], ![i - 1] = selected[i]]
               at == [j \in 1..n |-> IF j = i THEN i - 1 ELSE IF j = i - 1 THEN i ELSE j]
    <2>1. selected' = Renumber(moved) /\ same' = {} /\ i > 1 /\ i \in 1..n /\ i - 1 \in 1..n
      BY <1>4, <1>7 DEF MoveItem
    <2>2. moved \in Seq(Entries) /\ DOMAIN moved = 1..n
      BY <1>3, <1>4, <2>1
    <2>3. \A j \in 1..n : at[j] \in 1..n /\ moved[j] = selected[at[j]]
      BY <1>4, <2>1
    <2>4. \A j, k \in 1..n : j # k => at[j] # at[k]
      BY <1>4, <2>1
    <2> HIDE DEF moved, at
    <2>5. Within(moved, selected)
      BY <1>4, <2>2, <2>3 DEF Within
    <2>6. Apart(selected) => Apart(moved)
      BY <1>4, <2>2, <2>3, <2>4 DEF Apart
    <2>7. QED
      BY <2>1, <2>2, <2>5, <2>6, RenumberWithin
  <1>8. ASSUME NEW i \in DOMAIN selected, SetWeight(i)
        PROVE  /\ selected' \in Seq(Entries) /\ same' \subseteq Library
               /\ Within(selected', selected)
               /\ Apart(selected) => Apart(selected')
    BY <1>3, <1>8 DEF SetWeight, Within
  <1>9. ASSUME Clear
        PROVE  /\ selected' \in Seq(Entries) /\ same' \subseteq Library
               /\ Within(selected', selected)
               /\ Apart(selected) => Apart(selected')
    BY <1>9, EmptyList DEF Clear, Within, Apart
  <1>10. QED
    BY <1>5, <1>6, <1>7, <1>8, <1>9 DEF EditStep

-------------------------------------------------------------------------------
(* Every step keeps the types. *)

\* The unique constraint.
UniqueInv ==
  \A j, k \in RowIds :
    j # k /\ qrow[j].template # 0 /\ qrow[j].template = qrow[k].template =>
      qrow[j].question # qrow[k].question /\ qrow[j].order # qrow[k].order

LEMMA OpenEditFacts ==
  ASSUME TemplateTypeOK, UniqueInv, NEW t \in Templates, OpenEdit(t)
  PROVE  /\ form = "closed" /\ form' = "edit" /\ template[t] = "there" /\ target' = t
         /\ selected' \in Seq(Entries) /\ original' = RowsOf(t)
         /\ Apart(selected')
         /\ \A i \in DOMAIN selected' :
              /\ selected'[i].id \in RowsOf(t)
              /\ selected'[i].question = qrow[selected'[i].id].question
         /\ UNCHANGED <<same, broken, chain, template, qrow, finished, kept>>
         /\ crossed' \subseteq crossed \cup {t} /\ crossed \subseteq crossed'
         /\ (\E c \in Chains : Working(c) /\ chain[c].template = t) => t \in crossed'
  <1>0. PICK n \in 0..MaxRows : \E ids \in [1..n -> RowsOf(t)] :
          /\ \A i, j \in 1..n : i < j => qrow[ids[i]].order < qrow[ids[j]].order
          /\ selected' = [i \in 1..n |->
               [question |-> qrow[ids[i]].question, id |-> ids[i], order |-> qrow[ids[i]].order]]
    BY DEF OpenEdit
  <1>1. PICK ids \in [1..n -> RowsOf(t)] :
          /\ \A i, j \in 1..n : i < j => qrow[ids[i]].order < qrow[ids[j]].order
          /\ selected' = [i \in 1..n |->
               [question |-> qrow[ids[i]].question, id |-> ids[i], order |-> qrow[ids[i]].order]]
    BY <1>0
  <1>2. n \in Nat /\ \A i \in 1..n :
          /\ ids[i] \in RowsOf(t) /\ ids[i] \in RowIds /\ ids[i] \in 0..MaxRows
          /\ qrow[ids[i]].template = t
          /\ qrow[ids[i]].question \in Library /\ qrow[ids[i]].order \in Nat
    <2>1. TableType
      BY TypeParts
    <2>2. SUFFICES ASSUME NEW i \in 1..n
                   PROVE  /\ ids[i] \in RowsOf(t) /\ ids[i] \in RowIds /\ ids[i] \in 0..MaxRows
                          /\ qrow[ids[i]].template = t
                          /\ qrow[ids[i]].question \in Library /\ qrow[ids[i]].order \in Nat
      OBVIOUS
    <2>3. ids[i] \in RowsOf(t)
      BY <1>1
    <2>4. QED
      BY <2>1, <2>3, RowsAreRows, Constants
  <1>3. \A i \in 1..n :
          [question |-> qrow[ids[i]].question, id |-> ids[i], order |-> qrow[ids[i]].order] \in Entries
    BY <1>2 DEF Entries
  <1>4. selected' \in Seq(Entries) /\ DOMAIN selected' = 1..n
    BY <1>1, <1>2, <1>3
  <1>5. \A i \in 1..n : selected'[i].id = ids[i] /\ selected'[i].question = qrow[ids[i]].question
    BY <1>1
  <1>6. Apart(selected')
    <2> SUFFICES ASSUME NEW i \in 1..n, NEW j \in 1..n, i # j
                 PROVE  /\ selected'[i].question # selected'[j].question
                        /\ selected'[i].id = selected'[j].id => selected'[i].id = 0
      BY <1>4 DEF Apart
    <2>1. i < j \/ j < i
      OBVIOUS
    <2>2. qrow[ids[i]].order < qrow[ids[j]].order \/ qrow[ids[j]].order < qrow[ids[i]].order
      BY <1>1, <2>1
    <2>3. ids[i] # ids[j]
      BY <1>2, <2>2
    <2>4. qrow[ids[i]].question # qrow[ids[j]].question
      BY <1>2, <2>3, Constants DEF UniqueInv
    <2>5. QED
      BY <1>5, <2>3, <2>4
  <1>7. /\ form = "closed" /\ form' = "edit" /\ template[t] = "there" /\ target' = t
        /\ original' = RowsOf(t)
        /\ UNCHANGED <<same, broken, chain, template, qrow, finished, kept>>
        /\ crossed' = IF \E c \in Chains : Working(c) /\ chain[c].template = t
                      THEN crossed \cup {t} ELSE crossed
    BY DEF OpenEdit, tableVars
  <1>8. QED
    BY <1>2, <1>4, <1>5, <1>6, <1>7

LEMMA AnswerStarts ==
  ASSUME TemplateTypeOK, NEW c \in Chains, TemplateAnswered(c)
  PROVE  /\ At(c, "template") /\ UNCHANGED crossed
         /\ \E t \in Templates :
              /\ \/ chain[c].creates /\ CreateTemplate(t)
                 \/ /\ ~chain[c].creates /\ t = chain[c].template /\ template[t] = "there"
                    /\ UNCHANGED tableVars
              /\ Proceeds(c, Start(c, t), selected,
                          IF chain[c].heard THEN Asked(selected) ELSE same)
  <1> DEFINE save == IF chain[c].heard THEN Begun(chain[c]) ELSE chain[c]
  <1>1. At(c, "template") /\ chain[c] \in Saving
    BY WorkingTyped, AtWorks DEF TemplateAnswered
  <1>2. /\ save.creates = chain[c].creates /\ save.template = chain[c].template
        /\ save.heard = chain[c].heard
    BY <1>1, BegunFacts
  <1>3. /\ UNCHANGED crossed
        /\ \E t \in Templates :
             /\ \/ save.creates /\ CreateTemplate(t)
                \/ ~save.creates /\ t = save.template /\ template[t] = "there" /\ UNCHANGED tableVars
             /\ Proceeds(c, Start(c, t), selected, IF save.heard THEN Asked(selected) ELSE same)
    BY DEF TemplateAnswered, Start
  <1> HIDE DEF save
  <1>4. QED
    BY <1>1, <1>2, <1>3

LEMMA StepTemplate ==
  ASSUME TemplateTypeOK, PlaceInv, NEW c \in Chains, Working(c), chain[c].step # "template"
  PROVE  chain[c].template \in Templates
  BY WorkingTyped DEF PlaceInv, Placed

LEMMA TemplateTypeStep ==
  TemplateTypeOK /\ PlaceInv /\ UniqueInv /\ [TemplateNext]_templateVars => TemplateTypeOK'
<1> SUFFICES ASSUME TemplateTypeOK, PlaceInv, UniqueInv, [TemplateNext]_templateVars
             PROVE  TemplateTypeOK'
  OBVIOUS
<1>0. FormType /\ TableType /\ HistoryType
  BY TypeParts
<1> SUFFICES FormType' /\ TableType' /\ HistoryType'
  BY DEF TemplateTypeOK, FormType, TableType, HistoryType
<1>1. CASE OpenCreate
  BY <1>0, <1>1 DEF OpenCreate, tableVars, historyVars, FormType, TableType, HistoryType
<1>2. CASE LeaveForm
  <2>1. FormType'
    BY <1>2, CloseFormType, UnheardChains DEF LeaveForm, FormType
  <2>2. QED
    BY <1>0, <1>2, <2>1 DEF LeaveForm, tableVars, historyVars, TableType, HistoryType
<1>3. CASE CloseTab
  <2>1. FormType'
    BY <1>3, CloseFormType DEF CloseTab, FormType
  <2>2. QED
    BY <1>0, <1>3, <2>1 DEF CloseTab, tableVars, historyVars, TableType, HistoryType
<1>4. ASSUME NEW t \in Templates, OpenEdit(t) PROVE FormType' /\ TableType' /\ HistoryType'
  <2>1. t \in 0..MaxTemplates /\ RowsOf(t) \subseteq RowIds
    BY Constants DEF RowsOf
  <2>2. QED
    BY <1>0, <1>4, <2>1, OpenEditFacts DEF FormType, TableType, HistoryType
<1>5. CASE EditStep
  BY <1>0, <1>5, EditFacts DEF FormType, TableType, HistoryType
<1>6. ASSUME NEW c \in Chains, SaveStep(c) PROVE FormType' /\ TableType' /\ HistoryType'
  <2>1. CASE SaveQuiz(c)
    <3> DEFINE save == [template |-> target, creates |-> form = "create", step |-> "template",
          removed |-> {}, plan |-> << >>, next |-> 1, heard |-> TRUE, again |-> broken]
    <3>1. save \in Saving
      BY <1>0, EmptyList DEF Saving, FormType
    <3>2. /\ chain' = [chain EXCEPT ![c] = save]
          /\ UNCHANGED <<form, target, selected, original, same, broken, template, qrow,
                         finished, kept, crossed>>
      BY <2>1 DEF SaveQuiz, formVars, tableVars, historyVars
    <3> HIDE DEF save
    <3>3. QED
      BY <1>0, <3>1, <3>2 DEF FormType, TableType, HistoryType
  <2>2. CASE TemplateAnswered(c)
    <3> DEFINE objects == IF chain[c].heard THEN Asked(selected) ELSE same
    <3>1. PICK t \in Templates :
            /\ CreateTemplate(t) \/ UNCHANGED tableVars
            /\ Proceeds(c, Start(c, t), selected, objects)
      BY <2>2, AnswerStarts
    <3>2. Start(c, t) \in Saving /\ Start(c, t).template = t
      BY <2>2, StartFacts DEF TemplateAnswered
    <3>3. objects \in SUBSET Library /\ selected \in Seq(Entries)
      BY SetsOfList DEF TemplateTypeOK
    <3> HIDE DEF objects
    <3>4. FormType' /\ finished' \subseteq Templates /\ kept' \subseteq RowIds
      BY <3>1, <3>2, <3>3, ProceedsType
    <3>5. TableType'
      BY <1>0, <3>1, CreateTemplateType DEF TableType, tableVars
    <3>6. QED
      BY <1>0, <2>2, <3>4, <3>5 DEF TemplateAnswered, HistoryType
  <2>3. CASE RemovalAnswered(c)
    <3>1. PICK k \in RowIds :
            /\ Removing(c, k) /\ DestroyRow(chain[c].template, k)
            /\ Proceeds(c, [chain[c] EXCEPT !.removed = @ \ {k}], selected, same)
      BY <2>3 DEF RemovalAnswered
    <3>2. Working(c) /\ chain[c].step # "template" /\ chain[c] \in Saving
      BY <3>1, WorkingTyped DEF Removing, At
    <3> DEFINE new == [chain[c] EXCEPT !.removed = @ \ {k}]
    <3>3. new \in Saving /\ new.template \in Templates
      BY <3>2, StepTemplate DEF Saving
    <3>4. selected \in Seq(Entries) /\ same \in SUBSET Library
      BY DEF TemplateTypeOK
    <3> HIDE DEF new
    <3>5. FormType' /\ finished' \subseteq Templates /\ kept' \subseteq RowIds
      BY <3>1, <3>3, <3>4, ProceedsType DEF new
    <3>6. QED
      BY <1>0, <2>3, <3>1, <3>5, DestroyRowType DEF RemovalAnswered, HistoryType
  <2>4. CASE UpdateAnswered(c)
    <3>1. /\ Sending(c) /\ UpdateRow(chain[c].template, Item(c))
          /\ Proceeds(c, [chain[c] EXCEPT !.next = @ + 1], selected, same)
      BY <2>4 DEF UpdateAnswered
    <3>2. chain[c] \in Saving /\ chain[c].template \in Templates /\ Item(c) \in Entries
      BY <3>1, SendingItem, WorkingTyped, StepTemplate
    <3> DEFINE new == [chain[c] EXCEPT !.next = @ + 1]
    <3>3. new \in Saving /\ new.template \in Templates
      BY <3>2 DEF Saving
    <3>4. selected \in Seq(Entries) /\ same \in SUBSET Library
      BY DEF TemplateTypeOK
    <3> HIDE DEF new
    <3>5. FormType' /\ finished' \subseteq Templates /\ kept' \subseteq RowIds
      BY <3>1, <3>3, <3>4, ProceedsType DEF new
    <3>6. QED
      BY <1>0, <2>4, <3>1, <3>2, <3>5, UpdateType DEF UpdateAnswered, HistoryType
  <2>5. CASE AdditionAnswered(c)
    <3>1. PICK k \in RowIds :
            /\ Sending(c) /\ CreateRow(chain[c].template, k, Item(c))
            /\ Proceeds(c, Numbered(chain[c], k), Marked(c, k), same)
      BY <2>5 DEF AdditionAnswered, Numbered
    <3>2. /\ chain[c] \in Saving /\ chain[c].template \in Templates /\ Item(c) \in Entries
          /\ chain[c].next \in 1..Len(chain[c].plan)
      BY <3>1, SendingItem, WorkingTyped, StepTemplate
    <3>3. Numbered(chain[c], k) \in Saving /\ Numbered(chain[c], k).template \in Templates
      BY <3>2, NumberedFacts
    <3>4. Marked(c, k) \in Seq(Entries) /\ same \in SUBSET Library
      BY MarkedFacts DEF TemplateTypeOK
    <3>5. FormType' /\ finished' \subseteq Templates /\ kept' \subseteq RowIds
      BY <3>1, <3>3, <3>4, ProceedsType
    <3>6. QED
      BY <1>0, <2>5, <3>1, <3>2, <3>5, CreateType DEF AdditionAnswered, HistoryType
  <2>6. CASE CleanupAnswered(c)
    <3>1. /\ DestroyTemplate(chain[c].template)
          /\ chain' = [chain EXCEPT ![c] = NoChain]
          /\ UNCHANGED <<form, target, selected, original, same, broken, finished, kept, crossed>>
      BY <2>6 DEF CleanupAnswered, Ends, formVars, historyVars
    <3>2. QED
      BY <1>0, <3>1, DestroyTemplateType DEF FormType, HistoryType
  <2>7. CASE Refused(c)
    <3>1. Working(c) /\ SaveBreaks(c) /\ UNCHANGED <<template, qrow, finished, kept, crossed>>
      BY <2>7 DEF Refused, At, Removing, Sending, tableVars, historyVars
    <3>2. QED
      BY <1>0, <3>1, BreaksType DEF TableType, HistoryType
  <2>8. CASE Unprocessed(c)
    <3>1. Working(c) /\ SaveBreaks(c) /\ UNCHANGED <<template, qrow, finished, kept, crossed>>
      BY <2>8 DEF Unprocessed, tableVars, historyVars
    <3>2. QED
      BY <1>0, <3>1, BreaksType DEF TableType, HistoryType
  <2>9. CASE AnswerLost(c)
    <3>1. Working(c) /\ SaveBreaks(c) /\ UNCHANGED <<finished, kept, crossed>>
      BY <2>9 DEF AnswerLost, At, Removing, Sending, historyVars
    <3>2. TableType'
      <4>1. CASE \E u \in Templates : CreateTemplate(u)
        BY <1>0, <4>1, CreateTemplateType
      <4>2. CASE \E k \in RowIds : DestroyRow(chain[c].template, k)
        BY <1>0, <4>2, DestroyRowType
      <4>3. CASE Sending(c) /\ UpdateRow(chain[c].template, Item(c))
        BY <1>0, <4>3, SendingItem, StepTemplate, UpdateType
      <4>4. CASE Sending(c) /\ \E k \in RowIds : CreateRow(chain[c].template, k, Item(c))
        BY <1>0, <4>4, SendingItem, StepTemplate, CreateType
      <4>5. CASE DestroyTemplate(chain[c].template)
        BY <1>0, <4>5, DestroyTemplateType
      <4>6. QED
        BY <2>9, <4>1, <4>2, <4>3, <4>4, <4>5 DEF AnswerLost
    <3>3. QED
      BY <1>0, <3>1, <3>2, BreaksType DEF HistoryType
  <2>10. QED
    BY <1>6, <2>1, <2>2, <2>3, <2>4, <2>5, <2>6, <2>7, <2>8, <2>9 DEF SaveStep
<1>7. CASE UNCHANGED templateVars
  BY <1>0, <1>7 DEF templateVars, formVars, tableVars, historyVars, FormType, TableType, HistoryType
<1>8. QED
  BY <1>1, <1>2, <1>3, <1>4, <1>5, <1>6, <1>7 DEF TemplateNext

-------------------------------------------------------------------------------
(* Every step keeps the places of the saves. *)

\* All saves unheard, the one that ended, if any, left out.
LEMMA UnheardPlace ==
  ASSUME TemplateTypeOK, PlaceInv, CloseForm,
         \A d \in Chains : chain'[d] = NoChain \/ chain'[d] = Unheard(chain[d])
  PROVE  PlaceInv'
  <1>1. \A d \in Chains : Working(d)' =>
          /\ Working(d) /\ chain'[d].heard = FALSE /\ chain'[d].creates = chain[d].creates
          /\ chain'[d].template = chain[d].template /\ chain'[d].step = chain[d].step
    <2> SUFFICES ASSUME NEW d \in Chains, chain'[d] # NoChain
                 PROVE  /\ Working(d) /\ chain'[d].heard = FALSE
                        /\ chain'[d].creates = chain[d].creates
                        /\ chain'[d].template = chain[d].template
                        /\ chain'[d].step = chain[d].step
      BY DEF Working
    <2>1. chain'[d] = Unheard(chain[d]) /\ Working(d)
      BY UnheardNothing DEF Working
    <2>2. chain[d] \in Saving
      BY <2>1, WorkingTyped
    <2>3. QED
      BY <2>1, <2>2, UnheardFacts
  <1>2. \A d \in Chains : Placed(d)' /\ Attached(d)'
    BY <1>1 DEF PlaceInv, Placed, Attached
  <1>3. FormInv'
    BY CloseFormType DEF FormInv
  <1>4. QED
    BY <1>1, <1>2, <1>3 DEF PlaceInv

LEMMA ProceedsPlace ==
  ASSUME TemplateTypeOK, PlaceInv, NEW c \in Chains, Working(c), NEW save \in Saving,
         chain[c].step # "cleanup",
         save.template \in Templates, save.step = "questions", save.heard = chain[c].heard,
         save.creates = chain[c].creates, save.again = chain[c].again,
         ~save.creates => save.template = chain[c].template,
         NEW list, NEW objects, Proceeds(c, save, list, objects)
  PROVE  PlaceInv'
  <1>0. chain \in [Chains -> Saving \cup {NoChain}]
    BY DEF TemplateTypeOK
  <1>1. CASE Complete(save) /\ Finish(c, save)
    <2>1. CASE save.creates
      <3>1. /\ CloseForm
            /\ chain' = [d \in Chains |-> IF d = c THEN NoChain ELSE Unheard(chain[d])]
        BY <1>1, <2>1 DEF Finish
      <3>2. QED
        BY <3>1, UnheardPlace
    <2>2. CASE ~save.creates
      <3>1. /\ chain' = [chain EXCEPT ![c] = NoChain]
            /\ UNCHANGED <<form, target, broken>>
            /\ original' = original \/ save.heard
        BY <1>1, <2>2 DEF Finish, Ends, formVars
      <3>2. original' = original \/ form = "edit"
        BY <2>2, <3>1 DEF PlaceInv, Attached
      <3>3. \A d \in Chains : Working(d)' => Working(d) /\ chain'[d] = chain[d]
        BY <1>0, <3>1 DEF Working
      <3>4. \A d \in Chains : Placed(d)' /\ Attached(d)'
        BY <3>1, <3>3 DEF PlaceInv, Placed, Attached
      <3>5. QED
        BY <3>1, <3>2, <3>3, <3>4 DEF PlaceInv, FormInv
    <2>3. QED
      BY <2>1, <2>2
  <1>2. CASE /\ chain' = [chain EXCEPT ![c] = save]
             /\ UNCHANGED <<form, target, original, broken, finished, kept>>
    <2>1. \A d \in Chains : chain'[d] = IF d = c THEN save ELSE chain[d]
      BY <1>0, <1>2
    <2>2. \A d \in Chains : d # c => (Working(d)' => Working(d))
      BY <2>1 DEF Working
    <2>3. \A d \in Chains : Placed(d)' /\ Attached(d)'
      <3> TAKE d \in Chains
      <3>1. CASE d = c
        BY <1>2, <2>1, <3>1 DEF PlaceInv, Placed, Attached
      <3>2. CASE d # c
        BY <1>2, <2>1, <2>2, <3>2 DEF PlaceInv, Placed, Attached
      <3>3. QED
        BY <3>1, <3>2
    <2>4. QED
      BY <1>2, <2>1, <2>2, <2>3 DEF PlaceInv, FormInv
  <1>3. QED
    BY <1>1, <1>2 DEF Proceeds

\* A save that failed is gone, or it has only its template to remove.
LEMMA BreaksFacts ==
  ASSUME TemplateTypeOK, NEW c \in Chains, Working(c), SaveBreaks(c)
  PROVE  /\ \A d \in Chains \ {c} : chain'[d] = chain[d]
         /\ \/ chain'[c] = NoChain /\ ~Incomplete(chain[c])
            \/ /\ Incomplete(chain[c])
               /\ chain'[c] \in Saving /\ chain'[c] # NoChain
               /\ chain'[c].step = "cleanup" /\ chain'[c].plan = << >> /\ chain'[c].removed = {}
               /\ chain'[c].template = chain[c].template /\ chain'[c].creates = chain[c].creates
               /\ chain'[c].heard = chain[c].heard /\ chain'[c].again = chain[c].again
               /\ chain'[c].next = chain[c].next
         /\ broken' = (broken \/ chain[c].heard)
         /\ UNCHANGED <<form, target, selected, original>>
  <1>1. chain[c] \in Saving /\ chain \in [Chains -> Saving \cup {NoChain}]
    BY WorkingTyped DEF TemplateTypeOK
  <1> DEFINE new == [chain[c] EXCEPT !.step = "cleanup", !.removed = {}, !.plan = << >>]
  <1>2. /\ new \in Saving /\ new.step = "cleanup" /\ new.plan = << >> /\ new.removed = {}
        /\ new.template = chain[c].template /\ new.creates = chain[c].creates
        /\ new.heard = chain[c].heard /\ new.again = chain[c].again /\ new.next = chain[c].next
    BY <1>1, EmptyList DEF Saving
  <1>3. new # NoChain
    BY <1>2, NoChainIsNoSave
  <1>4. [chain EXCEPT ![c].step = "cleanup", ![c].removed = {}, ![c].plan = << >>] =
          [chain EXCEPT ![c] = new]
    BY <1>1
  <1> HIDE DEF new
  <1>5. \/ chain' = [chain EXCEPT ![c] = new] /\ Incomplete(chain[c])
        \/ chain' = [chain EXCEPT ![c] = NoChain] /\ ~Incomplete(chain[c])
    BY <1>4 DEF SaveBreaks, Ends
  <1>6. /\ broken' = (broken \/ chain[c].heard)
        /\ UNCHANGED <<form, target, selected, original>>
    BY DEF SaveBreaks
  <1>7. QED
    BY <1>1, <1>2, <1>3, <1>5, <1>6

LEMMA BreaksPlace ==
  ASSUME TemplateTypeOK, PlaceInv, NEW c \in Chains, Working(c), SaveBreaks(c)
  PROVE  PlaceInv'
  <1>1. /\ \A d \in Chains \ {c} : chain'[d] = chain[d] /\ (Working(d)' <=> Working(d))
        /\ Working(c)' =>
             /\ chain[c].creates /\ chain[c].template # 0
             /\ chain'[c].step = "cleanup" /\ chain'[c].creates = chain[c].creates
             /\ chain'[c].template = chain[c].template /\ chain'[c].heard = chain[c].heard
        /\ broken' = (broken \/ chain[c].heard)
        /\ UNCHANGED <<form, target, original>>
    BY BreaksFacts DEF Working, Incomplete
  <1>2. Placed(c)' /\ Attached(c)'
    BY <1>1 DEF PlaceInv, Placed, Attached
  <1>3. \A d \in Chains \ {c} : Placed(d)'
    BY <1>1 DEF PlaceInv, Placed
  <1>4. \A d \in Chains \ {c} : Attached(d)'
    <2> SUFFICES ASSUME NEW d \in Chains \ {c}, Working(d), chain[d].heard
                 PROVE  Attached(d)'
      BY <1>1 DEF Attached
    <2>1. ~chain[c].heard
      BY DEF PlaceInv
    <2>2. broken' = broken
      BY <1>1, <2>1 DEF TemplateTypeOK
    <2>3. QED
      BY <1>1, <2>2 DEF PlaceInv, Attached
  <1>5. FormInv'
    BY <1>1 DEF PlaceInv, FormInv
  <1>6. \A d, e \in Chains :
          Working(d)' /\ Working(e)' /\ chain'[d].heard /\ chain'[e].heard => d = e
    BY <1>1 DEF PlaceInv
  <1>7. QED
    BY <1>2, <1>3, <1>4, <1>5, <1>6 DEF PlaceInv

LEMMA PlaceInit == TemplateInit => PlaceInv
  <1> SUFFICES ASSUME TemplateInit PROVE PlaceInv
    OBVIOUS
  <1>1. \A c \in Chains : ~Working(c)
    BY DEF TemplateInit, Working
  <1>2. FormInv
    BY DEF TemplateInit, FormInv
  <1>3. QED
    BY <1>1, <1>2 DEF PlaceInv, Placed, Attached

LEMMA PlaceStep ==
  TemplateTypeOK /\ PlaceInv /\ UniqueInv /\ [TemplateNext]_templateVars => PlaceInv'
<1> SUFFICES ASSUME TemplateTypeOK, PlaceInv, UniqueInv, [TemplateNext]_templateVars
             PROVE  PlaceInv'
  OBVIOUS
<1> USE DEF PlaceInv
<1>1. CASE OpenCreate
  <2>1. /\ form = "closed" /\ form' = "create" /\ UNCHANGED <<target, original, broken, chain>>
    BY <1>1 DEF OpenCreate
  <2>2. \A c \in Chains : Working(c) => ~chain[c].heard
    BY <2>1, WorkingTyped DEF Attached
  <2>3. QED
    BY <2>1, <2>2 DEF FormInv, Placed, Attached, Working
<1>2. CASE LeaveForm
  <2>1. CloseForm /\ chain' = [c \in Chains |-> Unheard(chain[c])]
    BY <1>2 DEF LeaveForm
  <2>2. QED
    BY <2>1, UnheardPlace
<1>3. CASE CloseTab
  <2>1. CloseForm /\ \A c \in Chains : chain'[c] = NoChain
    BY <1>3 DEF CloseTab
  <2>2. QED
    BY <2>1, UnheardPlace
<1>4. ASSUME NEW t \in Templates, OpenEdit(t) PROVE PlaceInv'
  <2>1. form = "closed" /\ form' = "edit" /\ target' = t /\ UNCHANGED <<broken, chain>>
    BY <1>4, OpenEditFacts
  <2>2. \A c \in Chains : Working(c) => ~chain[c].heard
    BY <2>1, WorkingTyped DEF Attached
  <2>3. QED
    BY <2>1, <2>2 DEF FormInv, Placed, Attached, Working
<1>5. CASE EditStep
  <2>1. UNCHANGED <<form, target, original, broken, chain>>
    BY <1>5, EditFacts
  <2>2. QED
    BY <2>1 DEF FormInv, Placed, Attached, Working
<1>6. ASSUME NEW c \in Chains, SaveStep(c) PROVE PlaceInv'
  <2>1. CASE SaveQuiz(c)
    <3> DEFINE save == [template |-> target, creates |-> form = "create", step |-> "template",
          removed |-> {}, plan |-> << >>, next |-> 1, heard |-> TRUE, again |-> broken]
    <3>1. /\ chain' = [chain EXCEPT ![c] = save]
          /\ UNCHANGED <<form, target, original, broken>>
          /\ form # "closed" /\ \A d \in Chains : Working(d) => ~chain[d].heard
      BY <2>1 DEF SaveQuiz, formVars, Busy
    <3>2. /\ save.template = target /\ save.creates = (form = "create")
          /\ save.step = "template" /\ save.heard = TRUE /\ save.again = broken
      OBVIOUS
    <3>3. form = "create" => target = 0
      BY DEF FormInv
    <3>4. form # "create" => form = "edit" /\ target \in Templates
      BY <3>1 DEF FormInv, TemplateTypeOK
    <3> HIDE DEF save
    <3>5. \A d \in Chains : chain'[d] = IF d = c THEN save ELSE chain[d]
      BY <3>1 DEF TemplateTypeOK
    <3>6. Placed(c)' /\ Attached(c)'
      BY <3>1, <3>2, <3>3, <3>4, <3>5 DEF Placed, Attached
    <3>7. \A d \in Chains \ {c} : Placed(d)' /\ Attached(d)'
      BY <3>1, <3>5 DEF Placed, Attached, Working
    <3>8. QED
      BY <3>1, <3>5, <3>6, <3>7 DEF FormInv, Working
  <2>2. CASE TemplateAnswered(c)
    <3>1. PICK t \in Templates :
            /\ ~chain[c].creates => t = chain[c].template
            /\ \E objects : Proceeds(c, Start(c, t), selected, objects)
      BY <2>2, AnswerStarts
    <3>2. At(c, "template")
      BY <2>2 DEF TemplateAnswered
    <3>3. Working(c) /\ chain[c].step # "cleanup"
      BY <3>2 DEF At
    <3>4. /\ Start(c, t) \in Saving /\ Start(c, t).template = t /\ Start(c, t).step = "questions"
          /\ Start(c, t).creates = chain[c].creates
          /\ Start(c, t).heard = chain[c].heard /\ Start(c, t).again = chain[c].again
      BY <3>2, StartFacts
    <3>5. QED
      BY <3>1, <3>3, <3>4, ProceedsPlace
  <2>3. CASE RemovalAnswered(c) \/ UpdateAnswered(c) \/ AdditionAnswered(c)
    <3>1. Working(c) /\ chain[c].step = "questions" /\ chain[c].template \in Templates
      BY <2>3, AnsweredSave, StepTemplate
    <3>2. PICK save \in Saving :
            /\ save.template = chain[c].template /\ save.creates = chain[c].creates
            /\ save.step = "questions" /\ save.heard = chain[c].heard
            /\ save.again = chain[c].again
            /\ \E list, objects : Proceeds(c, save, list, objects)
      BY <2>3, AnsweredSave
    <3>3. QED
      BY <3>1, <3>2, ProceedsPlace
  <2>4. CASE CleanupAnswered(c)
    <3>1. /\ chain' = [chain EXCEPT ![c] = NoChain]
          /\ UNCHANGED <<form, target, original, broken>>
      BY <2>4 DEF CleanupAnswered, Ends, formVars
    <3>2. \A d \in Chains : Working(d)' => Working(d) /\ chain'[d] = chain[d]
      BY <3>1 DEF Working, TemplateTypeOK
    <3>3. QED
      BY <3>1, <3>2 DEF FormInv, Placed, Attached
  <2>5. CASE Refused(c) \/ Unprocessed(c) \/ AnswerLost(c)
    <3>1. Working(c) /\ SaveBreaks(c)
      BY <2>5 DEF Refused, Unprocessed, AnswerLost, At, Removing, Sending
    <3>2. QED
      BY <3>1, BreaksPlace
  <2>6. QED
    BY <1>6, <2>1, <2>2, <2>3, <2>4, <2>5 DEF SaveStep
<1>7. CASE UNCHANGED templateVars
  BY <1>7 DEF templateVars, formVars, FormInv, Placed, Attached, Working
<1>8. QED
  BY <1>1, <1>2, <1>3, <1>4, <1>5, <1>6, <1>7 DEF TemplateNext

-------------------------------------------------------------------------------
(* The tables: no two rows of a template have a question or a position in    *)
(* common, and only a template that is there has rows.                       *)

ThereInv == \A k \in RowIds : qrow[k].template # 0 => template[qrow[k].template] = "there"
TableInv == UniqueInv /\ ThereInv

Writes(t, k, item) ==
  /\ template[t] = "there" \/ k \in RowsOf(t)
  /\ WriteRow(t, k, item)

LEMMA TableSteps ==
  ASSUME TemplateTypeOK, PlaceInv, [TemplateNext]_templateVars
  PROVE  \/ UNCHANGED <<template, qrow>>
         \/ \E t \in Templates : CreateTemplate(t) \/ DestroyTemplate(t)
         \/ \E t \in Templates, k \in RowIds : DestroyRow(t, k)
         \/ \E t \in Templates, k \in RowIds, item \in Entries : Writes(t, k, item)
<1>1. ASSUME NEW c \in Chains, SaveStep(c)
      PROVE  \/ UNCHANGED <<template, qrow>>
             \/ \E t \in Templates : CreateTemplate(t) \/ DestroyTemplate(t)
             \/ \E t \in Templates, k \in RowIds : DestroyRow(t, k)
             \/ \E t \in Templates, k \in RowIds, item \in Entries : Writes(t, k, item)
  <2>1. CASE SaveQuiz(c) \/ Refused(c) \/ Unprocessed(c)
    BY <2>1 DEF SaveQuiz, Refused, Unprocessed, tableVars
  <2>2. CASE \E t \in Templates : CreateTemplate(t)
    BY <2>2
  <2>3. CASE \E k \in RowIds : Removing(c, k) /\ DestroyRow(chain[c].template, k)
    <3>1. chain[c].template \in Templates
      BY <2>3, StepTemplate DEF Removing, At
    <3>2. QED
      BY <2>3, <3>1
  <2>4. CASE Sending(c) /\ UpdateRow(chain[c].template, Item(c))
    <3>1. chain[c].template \in Templates /\ Item(c) \in Entries
      BY <2>4, StepTemplate, SendingItem
    <3>2. Item(c).id \in RowIds /\ Writes(chain[c].template, Item(c).id, Item(c))
      BY <2>4 DEF UpdateRow, Writes, RowsOf
    <3>3. QED
      BY <3>1, <3>2
  <2>5. CASE Sending(c) /\ \E k \in RowIds : CreateRow(chain[c].template, k, Item(c))
    <3>1. chain[c].template \in Templates /\ Item(c) \in Entries
      BY <2>5, StepTemplate, SendingItem
    <3>2. \E k \in RowIds : Writes(chain[c].template, k, Item(c))
      BY <2>5 DEF CreateRow, Writes
    <3>3. QED
      BY <3>1, <3>2
  <2>6. CASE At(c, "cleanup") /\ DestroyTemplate(chain[c].template)
    BY <2>6, StepTemplate DEF At
  <2>7. CASE TemplateAnswered(c)
    BY <2>2, <2>7, AnswerStarts DEF tableVars
  <2>8. CASE RemovalAnswered(c)
    BY <2>3, <2>8 DEF RemovalAnswered
  <2>9. CASE UpdateAnswered(c)
    BY <2>4, <2>9 DEF UpdateAnswered
  <2>10. CASE AdditionAnswered(c)
    BY <2>5, <2>10 DEF AdditionAnswered
  <2>11. CASE CleanupAnswered(c)
    BY <2>6, <2>11 DEF CleanupAnswered
  <2>12. CASE AnswerLost(c)
    BY <2>2, <2>3, <2>4, <2>5, <2>6, <2>12 DEF AnswerLost
  <2>13. QED
    BY <1>1, <2>1, <2>7, <2>8, <2>9, <2>10, <2>11, <2>12 DEF SaveStep
<1>2. CASE OpenCreate \/ LeaveForm \/ CloseTab \/ (\E t \in Templates : OpenEdit(t)) \/ EditStep
  BY <1>2, EditFacts DEF OpenCreate, LeaveForm, CloseTab, OpenEdit, tableVars
<1>3. CASE UNCHANGED templateVars
  BY <1>3 DEF templateVars, tableVars
<1>4. QED
  BY <1>1, <1>2, <1>3 DEF TemplateNext

LEMMA TableInit == TemplateInit => TableInv
  <1> SUFFICES ASSUME TemplateInit PROVE TableInv
    OBVIOUS
  <1>1. PICK n \in 0..MaxRows, gap \in {0, 1} : \E questions \in [1..n -> Library] :
          /\ template[1] = "none" => n = 0
          /\ \A i, j \in 1..n : questions[i] = questions[j] => i = j
          /\ qrow = [k \in RowIds |->
               IF k \in 1..n
               THEN [template |-> 1, question |-> questions[k], order |-> k + gap]
               ELSE Unmade]
    BY DEF TemplateInit
  <1>2. PICK questions \in [1..n -> Library] :
          /\ template[1] = "none" => n = 0
          /\ \A i, j \in 1..n : questions[i] = questions[j] => i = j
          /\ qrow = [k \in RowIds |->
               IF k \in 1..n
               THEN [template |-> 1, question |-> questions[k], order |-> k + gap]
               ELSE Unmade]
    BY <1>1
  <1>3. \A k \in RowIds :
          /\ k \in Nat
          /\ k \in 1..n => /\ qrow[k].template = 1 /\ qrow[k].question = questions[k]
                           /\ qrow[k].order = k + gap
          /\ k \notin 1..n => qrow[k].template = 0
    BY <1>2, Constants DEF Unmade
  <1>4. gap \in Nat /\ n \in Nat
    OBVIOUS
  <1>5. template[1] = "none" \/ template[1] = "there"
    <2>1. 1 \in Templates
      BY Constants DEF Templates
    <2>2. QED
      BY <2>1 DEF TemplateInit
  <1>6. UniqueInv
    BY <1>2, <1>3, <1>4 DEF UniqueInv
  <1>7. ThereInv
    BY <1>2, <1>3, <1>5 DEF ThereInv
  <1>8. QED
    BY <1>6, <1>7 DEF TableInv

LEMMA TableStep ==
  TemplateTypeOK /\ PlaceInv /\ TableInv /\ [TemplateNext]_templateVars => TableInv'
<1> SUFFICES ASSUME TemplateTypeOK, PlaceInv, TableInv, [TemplateNext]_templateVars
             PROVE  TableInv'
  OBVIOUS
<1> USE DEF TableInv
<1>0. /\ template \in [Templates -> {"none", "there", "gone"}]
      /\ qrow \in [RowIds -> Rows \cup {Unmade, Deleted}]
  BY DEF TemplateTypeOK
<1>1. CASE UNCHANGED <<template, qrow>>
  BY <1>1 DEF UniqueInv, ThereInv
<1>2. ASSUME NEW t \in Templates, CreateTemplate(t) PROVE TableInv'
  BY <1>0, <1>2 DEF CreateTemplate, UniqueInv, ThereInv
<1>3. ASSUME NEW t \in Templates, DestroyTemplate(t) PROVE TableInv'
  <2>1. \A k \in RowIds : /\ qrow[k].template = t => qrow'[k].template = 0
                          /\ qrow[k].template # t => qrow'[k] = qrow[k]
    BY <1>0, <1>3 DEF DestroyTemplate, RowsOf, Deleted
  <2>2. \A u : u # t => template'[u] = template[u]
    BY <1>0, <1>3 DEF DestroyTemplate
  <2>3. QED
    BY <2>1, <2>2 DEF UniqueInv, ThereInv
<1>4. ASSUME NEW t \in Templates, NEW k \in RowIds, DestroyRow(t, k) PROVE TableInv'
  <2>1. \A j \in RowIds : qrow'[j].template = 0 \/ qrow'[j] = qrow[j]
    BY <1>0, <1>4 DEF DestroyRow, Deleted
  <2>2. QED
    BY <1>4, <2>1 DEF DestroyRow, UniqueInv, ThereInv
<1>5. ASSUME NEW t \in Templates, NEW k \in RowIds, NEW item \in Entries, Writes(t, k, item)
      PROVE  TableInv'
  <2>1. /\ template' = template /\ Admits(t, k, item)
        /\ qrow'[k].template = t /\ qrow'[k].question = item.question
        /\ qrow'[k].order = item.order
        /\ \A j \in RowIds \ {k} : qrow'[j] = qrow[j]
    BY <1>0, <1>5 DEF Writes, WriteRow
  <2>2. template[t] = "there"
    BY <1>5, Constants DEF Writes, RowsOf, ThereInv
  <2>3. \A j \in RowIds \ {k} :
          qrow[j].template = t => qrow[j].question # item.question /\ qrow[j].order # item.order
    BY <2>1 DEF Admits, RowsOf
  <2>4. UniqueInv'
    BY <2>1, <2>3 DEF UniqueInv
  <2>5. ThereInv'
    BY <2>1, <2>2 DEF ThereInv
  <2>6. QED
    BY <2>4, <2>5
<1>6. QED
  BY <1>1, <1>2, <1>3, <1>4, <1>5, TableSteps

LEMMA TemplateTypeInit == TemplateInit => TemplateTypeOK
  <1> SUFFICES ASSUME TemplateInit PROVE TemplateTypeOK
    OBVIOUS
  <1>1. /\ form = "closed" /\ target = 0 /\ selected = << >> /\ original = {}
        /\ same = {} /\ broken = FALSE
        /\ chain = [c \in Chains |-> NoChain]
        /\ template \in [Templates -> {"none", "there"}]
        /\ finished = {t \in Templates : template[t] = "there"} /\ crossed = {}
    BY DEF TemplateInit
  <1>2. PICK n \in 0..MaxRows, gap \in {0, 1} : \E questions \in [1..n -> Library] :
          /\ qrow = [k \in RowIds |->
               IF k \in 1..n
               THEN [template |-> 1, question |-> questions[k], order |-> k + gap]
               ELSE Unmade]
          /\ kept = 1..n
    BY DEF TemplateInit
  <1>3. PICK questions \in [1..n -> Library] :
          /\ qrow = [k \in RowIds |->
               IF k \in 1..n
               THEN [template |-> 1, question |-> questions[k], order |-> k + gap]
               ELSE Unmade]
          /\ kept = 1..n
    BY <1>2
  <1>4. qrow \in [RowIds -> Rows \cup {Unmade, Deleted}]
    <2>1. \A k \in RowIds : k \in 1..n =>
            [template |-> 1, question |-> questions[k], order |-> k + gap] \in Rows
      BY Constants DEF Rows, Templates
    <2>2. QED
      BY <1>3, <2>1
  <1>5. kept \subseteq RowIds
    BY <1>3, Constants DEF RowIds
  <1>6. /\ form \in {"closed", "create", "edit"} /\ target \in 0..MaxTemplates
        /\ selected \in Seq(Entries) /\ original \subseteq RowIds
        /\ same \subseteq Library /\ broken \in BOOLEAN
    <2>1. selected \in Seq(Entries)
      BY <1>1, EmptyList, Zenon
    <2>2. target \in 0..MaxTemplates
      BY <1>1, Constants
    <2>3. QED
      BY <1>1, <2>1, <2>2
  <1>7. chain \in [Chains -> Saving \cup {NoChain}]
    BY <1>1
  <1>8. /\ template \in [Templates -> {"none", "there", "gone"}]
        /\ finished \subseteq Templates /\ crossed \subseteq Templates
    BY <1>1
  <1>9. QED
    BY <1>4, <1>5, <1>6, <1>7, <1>8 DEF TemplateTypeOK

TemplateInv == TemplateTypeOK /\ PlaceInv /\ TableInv

LEMMA TemplateInvCorrect == TemplateSpec => []TemplateInv
  <1>1. TemplateInit => TemplateInv
    BY TemplateTypeInit, PlaceInit, TableInit DEF TemplateInv
  <1>2. TemplateInv /\ [TemplateNext]_templateVars => TemplateInv'
    BY TemplateTypeStep, PlaceStep, TableStep DEF TemplateInv, TableInv
  <1>3. QED
    BY <1>1, <1>2, PTL DEF TemplateSpec

\* The form, its saves and the tables of the server keep their types.
THEOREM TemplateTypeCorrect == TemplateSpec => []TemplateTypeOK
  <1>1. TemplateInv => TemplateTypeOK
    BY DEF TemplateInv
  <1>2. QED
    BY <1>1, TemplateInvCorrect, PTL

-------------------------------------------------------------------------------
(* A template that could not be completed is removed.                        *)

\* A save that could not complete this template yet has it to remove.
Responsible(c, t) == Working(c) /\ chain[c].creates /\ chain[c].template = t

\* Nothing is left over if the saves answer for what they answered for.
LEMMA StillResponsible ==
  ASSUME NEW t, UNCHANGED <<template, finished>>,
         \A c \in Chains : Responsible(c, t) => Responsible(c, t)'
  PROVE  LeftOver(t)' => LeftOver(t)
  BY DEF LeftOver, Responsible

LEMMA ProceedsResponsible ==
  ASSUME TemplateTypeOK, NEW c \in Chains, Working(c), NEW save \in Saving,
         save.creates = chain[c].creates,
         NEW list, NEW objects, Proceeds(c, save, list, objects), NEW t \in Templates
  PROVE  /\ \A d \in Chains \ {c} : Responsible(d, t) => Responsible(d, t)'
         /\ save.template = t /\ save.creates => Responsible(c, t)' \/ t \in finished'
         /\ finished \subseteq finished'
  <1>0. /\ chain \in [Chains -> Saving \cup {NoChain}]
        /\ \A d \in Chains : Working(d) => chain[d] \in Saving
    BY WorkingTyped DEF TemplateTypeOK
  <1>1. CASE Complete(save) /\ Finish(c, save)
    <2>1. finished' = finished \cup {save.template}
      BY <1>1 DEF Finish
    <2>2. \A d \in Chains \ {c} : Responsible(d, t) => Responsible(d, t)'
      <3> SUFFICES ASSUME NEW d \in Chains \ {c}, Responsible(d, t) PROVE Responsible(d, t)'
        OBVIOUS
      <3>1. chain'[d] = chain[d] \/ chain'[d] = Unheard(chain[d])
        BY <1>0, <1>1 DEF Finish, Ends
      <3>2. chain[d] \in Saving
        BY <1>0 DEF Responsible
      <3>3. QED
        BY <3>1, <3>2, UnheardFacts DEF Responsible, Working
    <2>3. QED
      BY <2>1, <2>2
  <1>2. CASE chain' = [chain EXCEPT ![c] = save] /\ finished' = finished
    <2>1. save # NoChain
      BY NoChainIsNoSave
    <2>2. QED
      BY <1>0, <1>2, <2>1 DEF Responsible, Working
  <1>3. QED
    BY <1>1, <1>2 DEF Proceeds

LEMMA LeftOverStep ==
  ASSUME TemplateInv, TemplateNext, ~CloseTab, NEW t \in Templates,
         \A c \in Chains : ~AnswerLost(c) /\ ~(At(c, "cleanup") /\ Unprocessed(c))
  PROVE  LeftOver(t)' => LeftOver(t)
<1>0. TemplateTypeOK /\ PlaceInv
  BY DEF TemplateInv
<1>1. CASE OpenCreate \/ EditStep \/ \E u \in Templates : OpenEdit(u)
  <2>1. UNCHANGED <<template, finished, chain>>
    BY <1>0, <1>1, EditFacts DEF OpenCreate, OpenEdit, tableVars, historyVars
  <2>2. QED
    BY <2>1 DEF LeftOver, Working
<1>2. CASE LeaveForm
  <2>1. UNCHANGED <<template, finished>> /\ \A c \in Chains : chain'[c] = Unheard(chain[c])
    BY <1>2 DEF LeaveForm, tableVars, historyVars
  <2>2. \A c \in Chains : Responsible(c, t) => Responsible(c, t)'
    <3> SUFFICES ASSUME NEW c \in Chains, Responsible(c, t) PROVE Responsible(c, t)'
      OBVIOUS
    <3>1. chain[c] \in Saving
      BY <1>0, WorkingTyped DEF Responsible
    <3>2. QED
      BY <1>0, <2>1, <3>1, UnheardFacts DEF Responsible, Working
  <2>3. QED
    BY <2>1, <2>2, StillResponsible
<1>3. ASSUME NEW c \in Chains, SaveStep(c) PROVE LeftOver(t)' => LeftOver(t)
  <2>1. CASE SaveQuiz(c)
    <3>1. UNCHANGED <<template, finished>> /\ ~Working(c) /\ \A d \in Chains \ {c} : chain'[d] = chain[d]
      BY <1>0, <2>1 DEF SaveQuiz, tableVars, historyVars, TemplateTypeOK
    <3>2. \A d \in Chains : Responsible(d, t) => Responsible(d, t)'
      BY <3>1 DEF Responsible, Working
    <3>3. QED
      BY <3>1, <3>2, StillResponsible
  <2>2. CASE TemplateAnswered(c)
    <3>1. PICK u \in Templates :
            /\ \/ chain[c].creates /\ CreateTemplate(u)
               \/ ~chain[c].creates /\ UNCHANGED tableVars
            /\ \E objects : Proceeds(c, Start(c, u), selected, objects)
      BY <1>0, <2>2, AnswerStarts
    <3>2. At(c, "template") /\ Working(c) /\ chain[c].step = "template"
      BY <2>2 DEF TemplateAnswered, At
    <3>3. /\ Start(c, u) \in Saving /\ Start(c, u).template = u
          /\ Start(c, u).creates = chain[c].creates
      BY <1>0, <3>2, StartFacts
    <3>4. ~Responsible(c, t)
      BY <1>0, <3>2, Constants DEF PlaceInv, Placed, Responsible
    <3>5. /\ \A d \in Chains : Responsible(d, t) => Responsible(d, t)'
          /\ u = t /\ chain[c].creates => Responsible(c, t)' \/ t \in finished'
          /\ finished \subseteq finished'
      BY <1>0, <3>1, <3>2, <3>3, <3>4, ProceedsResponsible
    <3>6. template'[t] = template[t] \/ (u = t /\ chain[c].creates)
      BY <1>0, <3>1 DEF CreateTemplate, tableVars, TemplateTypeOK
    <3>7. QED
      BY <3>5, <3>6 DEF LeftOver, Responsible
  <2>3. CASE RemovalAnswered(c) \/ UpdateAnswered(c) \/ AdditionAnswered(c)
    <3>1. Working(c) /\ UNCHANGED template
      BY <1>0, <2>3, AnsweredSave
    <3>2. PICK save \in Saving : /\ save.creates = chain[c].creates
                                 /\ save.template = chain[c].template
                                 /\ \E list, objects : Proceeds(c, save, list, objects)
      BY <1>0, <2>3, AnsweredSave
    <3>3. /\ \A d \in Chains \ {c} : Responsible(d, t) => Responsible(d, t)'
          /\ Responsible(c, t) => Responsible(c, t)' \/ t \in finished'
          /\ finished \subseteq finished'
      BY <1>0, <3>1, <3>2, ProceedsResponsible DEF Responsible
    <3>4. QED
      BY <3>1, <3>3 DEF LeftOver, Responsible
  <2>4. CASE CleanupAnswered(c)
    <3>1. /\ template' = [template EXCEPT ![chain[c].template] = "gone"]
          /\ chain' = [chain EXCEPT ![c] = NoChain] /\ finished' = finished
      BY <2>4 DEF CleanupAnswered, DestroyTemplate, Ends, historyVars
    <3>2. CASE t = chain[c].template
      BY <1>0, <3>1, <3>2 DEF LeftOver, TemplateTypeOK
    <3>3. CASE t # chain[c].template
      <4>1. \A d \in Chains : Responsible(d, t) => Responsible(d, t)'
        BY <1>0, <3>1, <3>3 DEF Responsible, Working, TemplateTypeOK
      <4>2. QED
        BY <1>0, <3>1, <3>3, <4>1 DEF LeftOver, Responsible, TemplateTypeOK
    <3>4. QED
      BY <3>2, <3>3
  <2>5. CASE Refused(c) \/ Unprocessed(c)
    <3>1. /\ Working(c) /\ SaveBreaks(c) /\ UNCHANGED <<template, finished>>
          /\ chain[c].step # "cleanup"
      BY <2>5 DEF Refused, Unprocessed, At, Removing, Sending, tableVars, historyVars
    <3>2. Responsible(c, t) => Incomplete(chain[c])
      BY <3>1, Constants DEF Responsible, Incomplete
    <3>3. \A d \in Chains : Responsible(d, t) => Responsible(d, t)'
      BY <1>0, <3>1, <3>2, BreaksFacts DEF Responsible, Working
    <3>4. QED
      BY <3>1, <3>3, StillResponsible
  <2>6. QED
    BY <1>3, <2>1, <2>2, <2>3, <2>4, <2>5 DEF SaveStep
<1>4. QED
  BY <1>1, <1>2, <1>3 DEF TemplateNext

\* A template that could not be completed stays behind only if the answer to its
\* creation or the cleanup is lost, or the tab is closed.
THEOREM NothingIsLeftOver == TemplateSpec => NothingLeftOver
  <1>1. TemplateInv /\ [TemplateNext]_templateVars =>
          [\A t \in Templates :
             LeftOver(t)' /\ ~LeftOver(t) =>
               \/ CloseTab
               \/ \E c \in Chains : AnswerLost(c) \/ (At(c, "cleanup") /\ Unprocessed(c))]_templateVars
    BY LeftOverStep
  <1>2. QED
    BY <1>1, TemplateInvCorrect, PTL DEF TemplateSpec, NothingLeftOver
===============================================================================
