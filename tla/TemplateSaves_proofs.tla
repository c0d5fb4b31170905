------------------------- MODULE TemplateSaves_proofs --------------------------
(***************************************************************************)
(* Proofs about what the saves of quiz templates leave in the tables.      *)
(***************************************************************************)
EXTENDS TemplateEditor_proofs

-------------------------------------------------------------------------------
(* A template is crossed before two saves meet in it.                        *)

Stands(t) == template[t] = "there" \/ (template[t] = "gone" /\ t \in crossed)
CrossInv ==
  /\ \A c, d \in Chains :
       Working(c) /\ Working(d) /\ c # d
         /\ chain[c].template = chain[d].template /\ chain[c].template \in Templates =>
           chain[c].template \in crossed
  /\ \A c \in Chains : Working(c) /\ chain[c].template \in Templates => Stands(chain[c].template)
  /\ form = "edit" =>
       /\ Stands(target)
       /\ \A c \in Chains :
            Working(c) /\ chain[c].template = target => chain[c].heard \/ target \in crossed

\* What a step does to the saves that go on.
GoesOn(c, d) ==
  /\ Working(d) /\ chain'[d].creates = chain[d].creates
  /\ \/ chain'[d].template = chain[d].template
     \/ /\ d = c /\ chain[d].step = "template" /\ chain[d].creates
        /\ chain'[d].template \in Templates /\ CreateTemplate(chain'[d].template)
SameForm ==
  /\ form' = form /\ target' = target
  /\ \A d \in Chains : Working(d)' => chain'[d].heard = chain[d].heard

LEMMA ProceedsOn ==
  ASSUME TemplateTypeOK, NEW c \in Chains, Working(c), NEW save \in Saving,
         save.heard = chain[c].heard, save.creates = chain[c].creates,
         NEW list, NEW objects, Proceeds(c, save, list, objects)
  PROVE  /\ \A d \in Chains \ {c} : Working(d)' =>
              /\ Working(d) /\ chain'[d].creates = chain[d].creates
              /\ chain'[d].template = chain[d].template
         /\ Working(c)' => chain'[c] = save
         /\ form' = "closed" \/ SameForm
  <1>0. /\ chain \in [Chains -> Saving \cup {NoChain}]
        /\ \A d \in Chains : Working(d) => chain[d] \in Saving
    BY WorkingTyped DEF TemplateTypeOK
  <1>1. CASE save.creates /\ Finish(c, save)
    <2>1. /\ form' = "closed"
          /\ chain' = [d \in Chains |-> IF d = c THEN NoChain ELSE Unheard(chain[d])]
      BY <1>1 DEF Finish, CloseForm
    <2>2. \A d \in Chains \ {c} : Working(d)' =>
              /\ Working(d) /\ chain'[d].creates = chain[d].creates
              /\ chain'[d].template = chain[d].template
      <3> SUFFICES ASSUME NEW d \in Chains \ {c}, Working(d)'
                   PROVE  /\ Working(d) /\ chain'[d].creates = chain[d].creates
                          /\ chain'[d].template = chain[d].template
        OBVIOUS
      <3>1. chain'[d] = Unheard(chain[d]) /\ Working(d)
        BY <2>1, UnheardNothing DEF Working
      <3>2. QED
        BY <1>0, <3>1, UnheardFacts
    <2>3. QED
      BY <2>1, <2>2 DEF Working
  <1>2. CASE ~save.creates /\ Finish(c, save)
    <2>1. chain' = [chain EXCEPT ![c] = NoChain] /\ UNCHANGED <<form, target>>
      BY <1>2 DEF Finish, Ends, formVars
    <2>2. QED
      BY <1>0, <2>1 DEF Working, SameForm
  <1>3. CASE chain' = [chain EXCEPT ![c] = save] /\ UNCHANGED <<form, target>>
    BY <1>0, <1>3 DEF Working, SameForm
  <1>4. QED
    BY <1>1, <1>2, <1>3 DEF Proceeds

LEMMA ChainSteps ==
  ASSUME TemplateTypeOK, PlaceInv, NEW c \in Chains, SaveStep(c), ~SaveQuiz(c)
  PROVE  /\ \A d \in Chains : Working(d)' => GoesOn(c, d)
         /\ form' = "closed" \/ SameForm
         /\ crossed' = crossed
<1>0. chain \in [Chains -> Saving \cup {NoChain}]
  BY DEF TemplateTypeOK
<1>1. CASE TemplateAnswered(c)
  <2>1. PICK t \in Templates :
          /\ \/ chain[c].creates /\ CreateTemplate(t)
             \/ ~chain[c].creates /\ t = chain[c].template
          /\ \E objects : Proceeds(c, Start(c, t), selected, objects)
    BY <1>1, AnswerStarts
  <2>2. At(c, "template") /\ Working(c) /\ chain[c].step = "template" /\ crossed' = crossed
    BY <1>1 DEF TemplateAnswered, At
  <2>3. /\ Start(c, t) \in Saving /\ Start(c, t).template = t
        /\ Start(c, t).creates = chain[c].creates /\ Start(c, t).heard = chain[c].heard
    BY <2>2, StartFacts
  <2>4. QED
    BY <2>1, <2>2, <2>3, ProceedsOn DEF GoesOn
<1>2. CASE RemovalAnswered(c) \/ UpdateAnswered(c) \/ AdditionAnswered(c)
  <2>1. Working(c) /\ crossed' = crossed
    BY <1>2, AnsweredSave
  <2>2. PICK save \in Saving :
          /\ save.template = chain[c].template /\ save.creates = chain[c].creates
          /\ save.heard = chain[c].heard
          /\ \E list, objects : Proceeds(c, save, list, objects)
    BY <1>2, AnsweredSave
  <2>3. QED
    BY <2>1, <2>2, ProceedsOn DEF GoesOn
<1>3. CASE CleanupAnswered(c)
  <2>1. /\ chain' = [chain EXCEPT ![c] = NoChain]
        /\ UNCHANGED <<form, target, crossed>>
    BY <1>3 DEF CleanupAnswered, Ends, formVars, historyVars
  <2>2. QED
    BY <1>0, <2>1 DEF Working, GoesOn, SameForm
<1>4. CASE Refused(c) \/ Unprocessed(c) \/ AnswerLost(c)
  <2>1. Working(c) /\ SaveBreaks(c) /\ crossed' = crossed
    BY <1>4 DEF Refused, Unprocessed, AnswerLost, At, Removing, Sending, historyVars
  <2>2. QED
    BY <2>1, BreaksFacts DEF Working, GoesOn, SameForm
<1>5. QED
  BY <1>1, <1>2, <1>3, <1>4 DEF SaveStep

LEMMA TemplateSteps ==
  ASSUME TemplateTypeOK, NEW c \in Chains, SaveStep(c)
  PROVE  \/ \E t \in Templates : CreateTemplate(t)
         \/ UNCHANGED template
         \/ At(c, "cleanup") /\ DestroyTemplate(chain[c].template)
<1>1. CASE TemplateAnswered(c)
  BY <1>1, AnswerStarts DEF tableVars
<1>2. CASE RemovalAnswered(c) \/ UpdateAnswered(c) \/ AdditionAnswered(c)
  BY <1>2, AnsweredSave
<1>3. CASE CleanupAnswered(c)
  BY <1>3 DEF CleanupAnswered
<1>4. CASE AnswerLost(c)
  BY <1>4 DEF AnswerLost, DestroyRow, UpdateRow, CreateRow, WriteRow
<1>5. CASE SaveQuiz(c) \/ Refused(c) \/ Unprocessed(c)
  BY <1>5 DEF SaveQuiz, Refused, Unprocessed, tableVars
<1>6. QED
  BY <1>1, <1>2, <1>3, <1>4, <1>5 DEF SaveStep

LEMMA CleanupEnds ==
  ASSUME TemplateTypeOK, NEW c \in Chains, SaveStep(c), At(c, "cleanup")
  PROVE  /\ chain'[c] = NoChain /\ \A d \in Chains \ {c} : chain'[d] = chain[d]
         /\ UNCHANGED <<form, target, selected, original>>
  <1>1. Working(c) /\ chain[c].step = "cleanup" /\ chain \in [Chains -> Saving \cup {NoChain}]
    BY DEF At, TemplateTypeOK
  <1>2. CleanupAnswered(c) \/ SaveBreaks(c)
    BY <1>1, AnsweredSave
       DEF SaveStep, SaveQuiz, TemplateAnswered, At, Refused, Unprocessed, AnswerLost
  <1>3. CASE CleanupAnswered(c)
    BY <1>1, <1>3 DEF CleanupAnswered, Ends, formVars
  <1>4. CASE SaveBreaks(c)
    BY <1>1, <1>4, BreaksFacts DEF Incomplete
  <1>5. QED
    BY <1>2, <1>3, <1>4

LEMMA CrossInit == TemplateInit => CrossInv
  BY DEF TemplateInit, CrossInv, Working

LEMMA CrossStep ==
  TemplateInv /\ CrossInv /\ [TemplateNext]_templateVars => CrossInv'
<1> SUFFICES ASSUME TemplateInv, CrossInv, [TemplateNext]_templateVars
             PROVE  CrossInv'
  OBVIOUS
<1>0. /\ TemplateTypeOK /\ PlaceInv /\ chain \in [Chains -> Saving \cup {NoChain}]
      /\ template \in [Templates -> {"none", "there", "gone"}]
  BY DEF TemplateInv, TemplateTypeOK
<1>1. CASE OpenCreate \/ EditStep \/ UNCHANGED templateVars
  <2>1. /\ UNCHANGED <<template, chain, crossed>>
        /\ UNCHANGED <<form, target>> \/ form' = "create"
    BY <1>0, <1>1, EditFacts DEF OpenCreate, tableVars, historyVars, templateVars, formVars
  <2>2. QED
    BY <2>1 DEF CrossInv, Stands, Working
<1>2. CASE LeaveForm \/ CloseTab
  <2>1. UNCHANGED <<template, crossed>> /\ form' = "closed"
    BY <1>2 DEF LeaveForm, CloseTab, CloseForm, tableVars, historyVars
  <2>2. \A d \in Chains : Working(d)' => Working(d) /\ chain'[d].template = chain[d].template
    <3> SUFFICES ASSUME NEW d \in Chains, Working(d)'
                 PROVE  Working(d) /\ chain'[d].template = chain[d].template
      OBVIOUS
    <3>1. chain'[d] = Unheard(chain[d]) /\ Working(d)
      BY <1>2, UnheardNothing DEF LeaveForm, CloseTab, Working
    <3>2. QED
      BY <1>0, <3>1, WorkingTyped, UnheardFacts
  <2>3. QED
    BY <2>1, <2>2 DEF CrossInv, Stands
<1>3. ASSUME NEW t \in Templates, OpenEdit(t) PROVE CrossInv'
  <2>1. /\ form' = "edit" /\ target' = t /\ template[t] = "there"
        /\ UNCHANGED <<chain, template>> /\ crossed \subseteq crossed'
        /\ (\E c \in Chains : Working(c) /\ chain[c].template = t) => t \in crossed'
    BY <1>0, <1>3, OpenEditFacts DEF TemplateInv, TableInv
  <2>2. QED
    BY <2>1 DEF CrossInv, Stands, Working
<1>4. ASSUME NEW c \in Chains, SaveQuiz(c) PROVE CrossInv'
  <2>1. /\ UNCHANGED <<form, target, template, crossed>> /\ form # "closed"
        /\ \A d \in Chains : Working(d) => ~chain[d].heard
        /\ \A d \in Chains \ {c} : chain'[d] = chain[d]
        /\ chain'[c].template = target /\ chain'[c].heard = TRUE
    BY <1>0, <1>4 DEF SaveQuiz, formVars, tableVars, historyVars, Busy
  <2>2. target \in Templates => form = "edit"
    BY <1>0, Constants DEF PlaceInv, FormInv
  <2>3. QED
    BY <2>1, <2>2 DEF CrossInv, Stands, Working
<1>5. ASSUME NEW c \in Chains, SaveStep(c), ~SaveQuiz(c) PROVE CrossInv'
  <2>1. /\ \A d \in Chains : Working(d)' => GoesOn(c, d)
        /\ form' = "closed" \/ SameForm
        /\ crossed' = crossed
    BY <1>0, <1>5, ChainSteps
  <2>2. CASE \E t \in Templates : CreateTemplate(t)
    <3>1. PICK t \in Templates : CreateTemplate(t)
      BY <2>2
    <3>2. /\ template[t] = "none" /\ template'[t] = "there"
          /\ \A u \in Templates \ {t} : template[u] = template'[u]
      BY <1>0, <3>1 DEF CreateTemplate
    <3>3. \A d \in Chains : Working(d)' =>
            /\ Working(d)
            /\ chain'[d].template = chain[d].template \/ chain'[d].template = t
      BY <1>0, <2>1, <3>2 DEF GoesOn, CreateTemplate
    <3>4. \A d \in Chains : Working(d)' /\ chain'[d].template = t => At(c, "template") /\ d = c
      <4> SUFFICES ASSUME NEW d \in Chains, Working(d)', chain'[d].template = t
                   PROVE  At(c, "template") /\ d = c
        OBVIOUS
      <4>1. Working(d) /\ chain[d].template # t
        BY <2>1, <3>2 DEF GoesOn, CrossInv, Stands
      <4>2. d = c /\ chain[d].step = "template"
        BY <2>1, <4>1 DEF GoesOn
      <4>3. QED
        BY <4>1, <4>2 DEF At
    <3>5. form' = "edit" => target' \in Templates /\ target' # t
      BY <1>0, <2>1, <3>2 DEF SameForm, CrossInv, Stands, PlaceInv, FormInv
    <3>6. QED
      BY <2>1, <3>2, <3>3, <3>4, <3>5 DEF CrossInv, Stands, SameForm
  <2>3. CASE UNCHANGED template
    <3>1. \A d \in Chains : Working(d)' =>
            Working(d) /\ chain'[d].template = chain[d].template
      <4> SUFFICES ASSUME NEW d \in Chains, Working(d)', ~(chain'[d].template = chain[d].template)
                   PROVE  FALSE
        BY <2>1 DEF GoesOn
      <4>1. CreateTemplate(chain'[d].template) /\ chain'[d].template \in Templates
        BY <2>1 DEF GoesOn
      <4>2. QED
        BY <1>0, <2>3, <4>1 DEF CreateTemplate
    <3>2. QED
      BY <2>1, <2>3, <3>1 DEF CrossInv, Stands, SameForm
  <2>4. CASE At(c, "cleanup") /\ DestroyTemplate(chain[c].template)
    <3> DEFINE t == chain[c].template
    <3>1. Working(c) /\ chain[c].step = "cleanup" /\ chain[c].creates /\ t \in Templates
      BY <1>0, <2>4 DEF At, PlaceInv, Placed
    <3>2. template'[t] = "gone" /\ \A u \in Templates \ {t} : template'[u] = template[u]
      BY <1>0, <2>4, <3>1 DEF DestroyTemplate
    <3>3. chain'[c] = NoChain
      BY <1>0, <1>5, <2>4, CleanupEnds
    <3>4. \A d \in Chains : Working(d)' =>
            Working(d) /\ chain'[d].template = chain[d].template /\ d # c
      <4> SUFFICES ASSUME NEW d \in Chains, Working(d)', ~(chain'[d].template = chain[d].template)
                   PROVE  FALSE
        BY <2>1, <3>3 DEF GoesOn, Working
      <4>1. CreateTemplate(chain'[d].template) /\ chain'[d].template \in Templates
        BY <2>1 DEF GoesOn
      <4>2. QED
        BY <1>0, <3>2, <4>1 DEF CreateTemplate
    <3>5. form = "edit" /\ target = t => t \in crossed
      BY <1>0, <3>1 DEF CrossInv, PlaceInv, Attached
    <3>6. QED
      BY <1>0, <2>1, <3>1, <3>2, <3>4, <3>5 DEF CrossInv, Stands, SameForm, PlaceInv, FormInv
  <2>5. QED
    BY <1>0, <1>5, <2>2, <2>3, <2>4, TemplateSteps
<1>6. \/ OpenCreate \/ LeaveForm \/ CloseTab \/ EditStep \/ UNCHANGED templateVars
      \/ \E t \in Templates : OpenEdit(t)
      \/ \E c \in Chains : SaveQuiz(c) \/ (SaveStep(c) /\ ~SaveQuiz(c))
  BY DEF TemplateNext
<1>7. QED
  BY <1>1, <1>2, <1>3, <1>4, <1>5, <1>6

-------------------------------------------------------------------------------
(* What a save knows of the rows, for any table of rows.                     *)

Planned(save) == save.step = "questions" \/ (save.step = "template" /\ ~save.heard)
Of(rows, t) == {k \in RowIds : rows[k].template = t}

\* Of any save: its items, and what it has written.
PlanSound(save, rows) ==
  /\ Apart(save.plan) /\ \A k \in Known(save.plan) : rows[k] # Unmade
  /\ save.removed \cap Known(save.plan) = {}
  /\ save.step = "template" \/ save.removed # {} => save.next = 1
  /\ \A i \in DOMAIN save.plan :
       i < save.next =>
         save.plan[i].id # 0 /\ rows[save.plan[i].id].template \in {0, save.template}
\* Of a save that is alone: what it has written is there, and what was kept so far
\* is removed or listed.
PlanDone(save, rows, keeps) ==
  /\ \A i \in DOMAIN save.plan :
       i < save.next =>
         rows[save.plan[i].id] = [template |-> save.template, question |-> save.plan[i].question,
                                  order |-> save.plan[i].order]
  /\ Planned(save) =>
       \A k \in keeps : rows[k].template = save.template => k \in save.removed \cup Known(save.plan)
\* And of the first save of a form: the rows are those it is to remove and to list.
PlanClean(save, rows) ==
  /\ save.removed \subseteq Of(rows, save.template)
  /\ Of(rows, save.template) \subseteq save.removed \cup Known(save.plan)
  /\ \A i \in DOMAIN save.plan :
       save.plan[i].id # 0 =>
         /\ rows[save.plan[i].id].template = save.template
         /\ rows[save.plan[i].id].question = save.plan[i].question
SaveOK(save, rows, keeps, over) ==
  /\ PlanSound(save, rows)
  /\ save.template \in Templates \ over => PlanDone(save, rows, keeps)
  /\ Planned(save) /\ ~save.again =>
       /\ save.template = 0 => Known(save.plan) = {} /\ save.removed = {}
       /\ save.template \in Templates \ over => PlanClean(save, rows)

\* A row that was made is never unmade, and leaves its template only to be deleted.
Ages(rows, later) ==
  \A k \in RowIds :
    rows[k] # Unmade => later[k] # Unmade /\ later[k].template \in {0, rows[k].template}
Untouched(t, rows, later) ==
  \A k \in RowIds : rows[k].template = t \/ later[k].template = t => later[k] = rows[k]

LEMMA KnownId ==
  ASSUME NEW save \in Saving, NEW i \in DOMAIN save.plan
  PROVE  /\ save.plan[i].id \in 0..MaxRows
         /\ save.plan[i].id # 0 => save.plan[i].id \in RowIds /\ save.plan[i].id \in Known(save.plan)
  <1>1. save.plan \in Seq(Entries)
    BY DEF Saving
  <1>2. save.plan[i].id \in 0..MaxRows
    BY <1>1, EntriesInRange
  <1>3. QED
    BY <1>2, Constants DEF Known, RowIds

LEMMA KnownRows == ASSUME NEW save \in Saving PROVE Known(save.plan) \subseteq RowIds
  BY SetsOfList DEF Saving

\* What others do to other templates does not concern a save.
LEMMA SaveStays ==
  ASSUME NEW save \in Saving, NEW rows, NEW later, NEW keeps, NEW keeps2, NEW over, NEW over2,
         SaveOK(save, rows, keeps, over), Ages(rows, later), over \subseteq over2,
         keeps2 \subseteq RowIds,
         save.template \in Templates \ over2 =>
           /\ Untouched(save.template, rows, later)
           /\ \A k \in keeps2 : k \in keeps \/ later[k].template # save.template
  PROVE  SaveOK(save, later, keeps2, over2)
<1>1. PlanSound(save, later)
  BY KnownId, KnownRows DEF SaveOK, PlanSound, Ages
<1>2. save.template \in Templates \ over2 => PlanDone(save, later, keeps2)
  <2> SUFFICES ASSUME save.template \in Templates \ over2 PROVE PlanDone(save, later, keeps2)
    OBVIOUS
  <2>1. PlanDone(save, rows, keeps) /\ PlanSound(save, rows)
    BY DEF SaveOK
  <2>2. \A i \in DOMAIN save.plan :
          i < save.next => later[save.plan[i].id] = rows[save.plan[i].id]
    <3> SUFFICES ASSUME NEW i \in DOMAIN save.plan, i < save.next
                 PROVE  later[save.plan[i].id] = rows[save.plan[i].id]
      OBVIOUS
    <3>1. save.plan[i].id \in RowIds
      BY <2>1, KnownId DEF PlanSound
    <3>2. rows[save.plan[i].id] = [template |-> save.template,
                                   question |-> save.plan[i].question,
                                   order |-> save.plan[i].order]
      BY <2>1 DEF PlanDone
    <3>3. rows[save.plan[i].id].template = save.template
      BY <3>2
    <3>4. QED
      BY <3>1, <3>3 DEF Untouched
  <2>3. \A k \in keeps2 : later[k].template = save.template =>
          k \in keeps /\ rows[k].template = save.template
    BY DEF Untouched
  <2>4. QED
    BY <2>1, <2>2, <2>3 DEF PlanDone
<1>3. Planned(save) /\ ~save.again =>
        /\ save.template = 0 => Known(save.plan) = {} /\ save.removed = {}
        /\ save.template \in Templates \ over2 => PlanClean(save, later)
  <2>1. ASSUME Planned(save), ~save.again, save.template \in Templates \ over2
        PROVE  PlanClean(save, later)
    <3>1. PlanClean(save, rows) /\ Untouched(save.template, rows, later)
      BY <2>1 DEF SaveOK
    <3>2. Of(rows, save.template) = Of(later, save.template)
      BY <3>1 DEF Of, Untouched
    <3>3. \A i \in DOMAIN save.plan :
            save.plan[i].id # 0 => later[save.plan[i].id] = rows[save.plan[i].id]
      BY <3>1, KnownId DEF PlanClean, Untouched
    <3>4. QED
      BY <3>1, <3>2, <3>3 DEF PlanClean
  <2>2. QED
    BY <2>1 DEF SaveOK
<1>4. QED
  BY <1>1, <1>2, <1>3 DEF SaveOK

TableRows == [RowIds -> Rows \cup {Unmade, Deleted}]
Holds(t, item) == [template |-> t, question |-> item.question, order |-> item.order]

LEMMA HoldsFacts ==
  ASSUME NEW t \in Templates, NEW item
  PROVE  /\ Holds(t, item).template = t /\ Holds(t, item).question = item.question
         /\ Holds(t, item) # Unmade
  BY Constants DEF Holds, Unmade

\* A removal that was answered.
LEMMA RemovalOK ==
  ASSUME NEW save \in Saving, NEW new \in Saving, NEW rows \in TableRows, NEW keeps, NEW over,
         NEW k \in save.removed, SaveOK(save, rows, keeps, over),
         save.template \in Templates, rows[k].template = save.template,
         new.removed = save.removed \ {k}, new.template = save.template, new.step = save.step,
         new.plan = save.plan, new.next = save.next, new.heard = save.heard,
         new.again = save.again
  PROVE  SaveOK(new, [rows EXCEPT ![k] = Deleted], keeps, over)
<1> DEFINE later == [rows EXCEPT ![k] = Deleted]
<1>1. /\ k \in RowIds /\ later[k] = Deleted /\ Deleted # Unmade /\ Deleted.template = 0
      /\ \A j \in RowIds \ {k} : later[j] = rows[j]
  <2>1. k \in RowIds
    BY DEF Saving
  <2>2. Deleted # Unmade /\ Deleted.template = 0
    <3>1. DOMAIN Deleted = {"template", "deleted"} /\ DOMAIN Unmade = {"template"}
      BY DEF Deleted, Unmade
    <3>2. Deleted.template = 0
      BY DEF Deleted
    <3>3. QED
      BY <3>1, <3>2
  <2>3. QED
    BY <2>1, <2>2 DEF TableRows
<1>2. save.next = 1 /\ \A i \in DOMAIN save.plan : i \in Nat \ {0}
  BY DEF SaveOK, PlanSound, Saving
<1>3. k \notin Known(save.plan) /\ Known(save.plan) \subseteq RowIds
  BY KnownRows DEF SaveOK, PlanSound
<1> HIDE DEF later
<1>4. PlanSound(new, later)
  BY <1>1, <1>2, <1>3 DEF SaveOK, PlanSound
<1>5. new.template \in Templates \ over => PlanDone(new, later, keeps)
  <2> SUFFICES ASSUME new.template \in Templates \ over PROVE PlanDone(new, later, keeps)
    OBVIOUS
  <2>1. \A i \in DOMAIN new.plan : ~(i < new.next)
    BY <1>2
  <2>2. Planned(new) => \A j \in keeps :
          later[j].template = new.template => j \in new.removed \cup Known(new.plan)
    <3> SUFFICES ASSUME Planned(new), NEW j \in keeps, later[j].template = new.template
                 PROVE  j \in new.removed \cup Known(new.plan)
      OBVIOUS
    <3>1. j # k
      BY <1>1, Constants
    <3>2. later[j] = rows[j]
      BY <3>1 DEF later, TableRows
    <3>3. Planned(save) /\ PlanDone(save, rows, keeps)
      BY DEF Planned, SaveOK
    <3>4. QED
      BY <3>1, <3>2, <3>3 DEF PlanDone
  <2>3. QED
    BY <2>1, <2>2 DEF PlanDone
<1>6. Planned(new) /\ ~new.again /\ new.template \in Templates \ over => PlanClean(new, later)
  <2> SUFFICES ASSUME Planned(new), ~new.again, new.template \in Templates \ over
               PROVE  PlanClean(new, later)
    OBVIOUS
  <2>1. PlanClean(save, rows)
    BY DEF SaveOK, Planned
  <2>2. Of(later, save.template) = Of(rows, save.template) \ {k}
    BY <1>1, Constants DEF Of
  <2>3. \A i \in DOMAIN save.plan :
          save.plan[i].id # 0 => later[save.plan[i].id] = rows[save.plan[i].id]
    BY <1>1, <1>3, KnownId
  <2>4. QED
    BY <2>1, <2>2, <2>3 DEF PlanClean
<1>7. QED
  BY <1>4, <1>5, <1>6, Constants DEF SaveOK, later

\* An update that was answered.
LEMMA UpdateOK ==
  ASSUME NEW save \in Saving, NEW new \in Saving, NEW rows \in TableRows, NEW keeps, NEW over,
         SaveOK(save, rows, keeps, over), save.removed = {}, save.step = "questions",
         save.next \in DOMAIN save.plan, NEW k, k = save.plan[save.next].id, k # 0,
         save.template \in Templates, rows[k].template = save.template,
         new.next = save.next + 1, new.template = save.template, new.step = save.step,
         new.plan = save.plan, new.removed = save.removed, new.heard = save.heard,
         new.again = save.again
  PROVE  SaveOK(new, [rows EXCEPT ![k] = Holds(save.template, save.plan[save.next])], keeps, over)
<1> DEFINE item == Holds(save.template, save.plan[save.next])
           later == [rows EXCEPT ![k] = item]
<1>0. save.plan \in Seq(Entries) /\ save.next \in Nat \ {0} /\ DOMAIN save.plan = 1..Len(save.plan)
  BY DEF Saving
<1>1. /\ k \in RowIds /\ k \in Known(save.plan) /\ later[k] = item
      /\ \A j \in RowIds \ {k} : later[j] = rows[j]
      /\ item.template = save.template /\ item.question = save.plan[save.next].question
      /\ item # Unmade
  BY KnownId, HoldsFacts DEF TableRows
<1>2. \A i \in DOMAIN save.plan : i < new.next <=> (i < save.next \/ i = save.next)
  BY <1>0
<1>3. \A i \in DOMAIN save.plan :
        i # save.next /\ save.plan[i].id # 0 =>
          save.plan[i].id \in RowIds \ {k} /\ later[save.plan[i].id] = rows[save.plan[i].id]
  BY <1>1, KnownId DEF SaveOK, PlanSound, Apart
<1> HIDE DEF later, item
<1>4. \A j \in RowIds : later[j].template = rows[j].template
                        /\ (rows[j] # Unmade => later[j] # Unmade)
  BY <1>1
<1>5. PlanSound(new, later)
  <2>1. PlanSound(save, rows)
    BY DEF SaveOK
  <2>2. \A i \in DOMAIN new.plan : i < new.next =>
          new.plan[i].id # 0 /\ later[new.plan[i].id].template \in {0, new.template}
    BY <1>1, <1>2, <1>4, <2>1, KnownId DEF PlanSound
  <2>3. QED
    BY <1>4, <2>1, <2>2, KnownRows DEF PlanSound
<1>6. new.template \in Templates \ over => PlanDone(new, later, keeps)
  <2> SUFFICES ASSUME new.template \in Templates \ over PROVE PlanDone(new, later, keeps)
    OBVIOUS
  <2>1. PlanDone(save, rows, keeps) /\ PlanSound(save, rows) /\ Planned(save)
    BY DEF SaveOK, Planned
  <2>2. \A i \in DOMAIN save.plan : i < new.next =>
          later[save.plan[i].id] = Holds(save.template, save.plan[i])
    <3> SUFFICES ASSUME NEW i \in DOMAIN save.plan, i < save.next \/ i = save.next
                 PROVE  later[save.plan[i].id] = Holds(save.template, save.plan[i])
      BY <1>2
    <3>1. CASE i = save.next
      BY <1>1, <3>1 DEF item
    <3>2. CASE i < save.next
      BY <1>0, <1>3, <2>1, <3>2 DEF PlanDone, PlanSound, Holds
    <3>3. QED
      BY <3>1, <3>2
  <2>3. \A j \in keeps : later[j].template = rows[j].template
    BY <1>1 DEF later, TableRows
  <2>4. QED
    BY <2>1, <2>2, <2>3 DEF PlanDone, Holds
<1>7. Planned(new) /\ ~new.again /\ new.template \in Templates \ over => PlanClean(new, later)
  <2> SUFFICES ASSUME Planned(new), ~new.again, new.template \in Templates \ over
               PROVE  PlanClean(new, later)
    OBVIOUS
  <2>1. PlanClean(save, rows)
    BY DEF SaveOK, Planned
  <2>2. Of(later, save.template) = Of(rows, save.template)
    BY <1>4 DEF Of
  <2>3. \A i \in DOMAIN save.plan : save.plan[i].id # 0 =>
          /\ later[save.plan[i].id].template = save.template
          /\ later[save.plan[i].id].question = save.plan[i].question
    BY <1>1, <1>3, <2>1 DEF PlanClean
  <2>4. QED
    BY <2>1, <2>2, <2>3 DEF PlanClean
<1>8. QED
  BY <1>5, <1>6, <1>7, Constants DEF SaveOK, later, item
\* An addition that was answered.
LEMMA AdditionOK ==
  ASSUME NEW save \in Saving, NEW new \in Saving, NEW rows \in TableRows, NEW keeps, NEW over,
         SaveOK(save, rows, keeps, over), save.removed = {}, save.step = "questions",
         save.next \in DOMAIN save.plan, save.plan[save.next].id = 0,
         save.template \in Templates, NEW k \in RowIds, rows[k] = Unmade,
         \A j \in keeps : rows[j] # Unmade,
         new.next = save.next + 1, new.template = save.template, new.step = save.step,
         new.removed = save.removed, new.again = save.again, new.heard = save.heard,
         DOMAIN new.plan = DOMAIN save.plan,
         \A i \in DOMAIN save.plan :
           /\ new.plan[i].question = save.plan[i].question
           /\ new.plan[i].order = save.plan[i].order
           /\ new.plan[i].id = IF i = save.next THEN k ELSE save.plan[i].id
  PROVE  SaveOK(new, [rows EXCEPT ![k] = Holds(save.template, save.plan[save.next])], keeps, over)
<1> DEFINE n == save.next
           item == Holds(save.template, save.plan[n])
           later == [rows EXCEPT ![k] = item]
<1>0. save.plan \in Seq(Entries) /\ n \in Nat \ {0} /\ DOMAIN save.plan = 1..Len(save.plan)
  BY DEF Saving
<1>1. /\ later[k] = item /\ \A j \in RowIds \ {k} : later[j] = rows[j]
      /\ item.template = save.template /\ item.question = save.plan[n].question /\ item # Unmade
  BY HoldsFacts DEF TableRows
<1>2. PlanSound(save, rows) /\ k \notin Known(save.plan) /\ k # 0
  BY Constants DEF SaveOK, PlanSound
<1>3. Known(new.plan) = Known(save.plan) \cup {k}
  BY <1>0, <1>2 DEF Known
<1>4. \A i \in DOMAIN save.plan : i < new.next <=> (i < n \/ i = n)
  BY <1>0
<1>5. \A i \in DOMAIN save.plan \ {n} : save.plan[i].id # k
  BY <1>2 DEF Known
<1>6. \A i \in DOMAIN save.plan \ {n} :
        save.plan[i].id # 0 =>
          save.plan[i].id \in RowIds \ {k} /\ later[save.plan[i].id] = rows[save.plan[i].id]
  BY <1>1, <1>5, KnownId
<1> HIDE DEF later, item
<1>7. PlanSound(new, later)
  <2>1. Apart(new.plan)
    BY <1>2, <1>5, Constants DEF PlanSound, Apart
  <2>2. \A j \in Known(new.plan) : later[j] # Unmade
    BY <1>1, <1>2, <1>3, KnownRows DEF PlanSound
  <2>3. \A i \in DOMAIN new.plan : i < new.next =>
          new.plan[i].id # 0 /\ later[new.plan[i].id].template \in {0, new.template}
    <3> SUFFICES ASSUME NEW i \in DOMAIN save.plan, i < n \/ i = n
                 PROVE  new.plan[i].id # 0 /\ later[new.plan[i].id].template \in {0, new.template}
      BY <1>4
    <3>1. CASE i = n
      BY <1>1, <1>2, <3>1
    <3>2. CASE i < n
      BY <1>0, <1>2, <1>6, <3>2 DEF PlanSound
    <3>3. QED
      BY <3>1, <3>2
  <2>4. QED
    BY <2>1, <2>2, <2>3 DEF PlanSound
<1>8. new.template \in Templates \ over => PlanDone(new, later, keeps)
  <2> SUFFICES ASSUME new.template \in Templates \ over PROVE PlanDone(new, later, keeps)
    OBVIOUS
  <2>1. PlanDone(save, rows, keeps) /\ Planned(save)
    BY DEF SaveOK, Planned
  <2>2. \A i \in DOMAIN save.plan : i < new.next =>
          later[new.plan[i].id] = Holds(save.template, save.plan[i])
    <3> SUFFICES ASSUME NEW i \in DOMAIN save.plan, i < n \/ i = n
                 PROVE  later[new.plan[i].id] = Holds(save.template, save.plan[i])
      BY <1>4
    <3>1. CASE i = n
      BY <1>1, <3>1 DEF item
    <3>2. CASE i < n
      BY <1>0, <1>2, <1>6, <2>1, <3>2 DEF PlanDone, PlanSound, Holds
    <3>3. QED
      BY <3>1, <3>2
  <2>3. \A j \in keeps : later[j] = rows[j]
    BY DEF later, TableRows
  <2>4. QED
    BY <1>3, <2>1, <2>2, <2>3 DEF PlanDone, Holds
<1>9. Planned(new) /\ ~new.again /\ new.template \in Templates \ over => PlanClean(new, later)
  <2> SUFFICES ASSUME Planned(new), ~new.again, new.template \in Templates \ over
               PROVE  PlanClean(new, later)
    OBVIOUS
  <2>1. PlanClean(save, rows)
    BY DEF SaveOK, Planned
  <2>2. Of(later, save.template) = Of(rows, save.template) \cup {k}
    BY <1>1 DEF Of
  <2>3. \A i \in DOMAIN save.plan : new.plan[i].id # 0 =>
          /\ later[new.plan[i].id].template = save.template
          /\ later[new.plan[i].id].question = save.plan[i].question
    BY <1>1, <1>6, <2>1 DEF PlanClean
  <2>4. QED
    BY <1>3, <2>1, <2>2, <2>3 DEF PlanClean
<1>10. QED
  BY <1>7, <1>8, <1>9, Constants DEF SaveOK, later, item

-------------------------------------------------------------------------------
(* What a step does to the rows: those of other templates stay as they are.  *)

LEMMA SameRows == ASSUME qrow' = qrow PROVE Ages(qrow, qrow') /\ \A t : Untouched(t, qrow, qrow')
  BY Constants DEF Ages, Untouched

LEMMA DestroyRowAges ==
  ASSUME TemplateTypeOK, NEW t \in Templates, NEW k, DestroyRow(t, k)
  PROVE  Ages(qrow, qrow') /\ \A u \in Templates \ {t} : Untouched(u, qrow, qrow')
  <1>1. k \in RowIds /\ qrow[k].template = t /\ qrow' = [qrow EXCEPT ![k] = Deleted]
    BY DEF DestroyRow, RowsOf
  <1>2. Deleted.template = 0 /\ Deleted # Unmade
    <2>1. DOMAIN Deleted = {"template", "deleted"} /\ DOMAIN Unmade = {"template"}
      BY DEF Deleted, Unmade
    <2>2. QED
      BY <2>1 DEF Deleted
  <1>3. qrow'[k] = Deleted /\ \A j \in RowIds \ {k} : qrow'[j] = qrow[j]
    BY <1>1 DEF TemplateTypeOK
  <1>4. QED
    BY <1>1, <1>2, <1>3, Constants DEF Ages, Untouched

LEMMA WriteRowAges ==
  ASSUME TemplateTypeOK, NEW t \in Templates, NEW k \in RowIds,
         qrow[k] = Unmade \/ qrow[k].template = t, NEW item, WriteRow(t, k, item)
  PROVE  Ages(qrow, qrow') /\ \A u \in Templates \ {t} : Untouched(u, qrow, qrow')
  <1>1. qrow' = [qrow EXCEPT ![k] = Holds(t, item)]
    BY DEF WriteRow, Holds
  <1>2. qrow'[k] = Holds(t, item) /\ \A j \in RowIds \ {k} : qrow'[j] = qrow[j]
    BY <1>1 DEF TemplateTypeOK
  <1>3. qrow'[k].template = t /\ qrow'[k] # Unmade
    BY <1>2, HoldsFacts
  <1>4. qrow[k].template \in {0, t}
    BY DEF Unmade
  <1>5. QED
    BY <1>2, <1>3, <1>4, Constants DEF Ages, Untouched

LEMMA DestroyTemplateAges ==
  ASSUME TemplateTypeOK, NEW t \in Templates, DestroyTemplate(t)
  PROVE  Ages(qrow, qrow') /\ \A u \in Templates \ {t} : Untouched(u, qrow, qrow')
  <1>1. \A k \in RowIds : qrow'[k] = IF qrow[k].template = t THEN Deleted ELSE qrow[k]
    BY DEF DestroyTemplate, RowsOf
  <1>2. Deleted.template = 0 /\ Deleted # Unmade
    <2>1. DOMAIN Deleted = {"template", "deleted"} /\ DOMAIN Unmade = {"template"}
      BY DEF Deleted, Unmade
    <2>2. QED
      BY <2>1 DEF Deleted
  <1>3. QED
    BY <1>1, <1>2, Constants DEF Ages, Untouched

LEMMA RowSteps ==
  ASSUME TemplateInv, NEW c \in Chains, SaveStep(c)
  PROVE  Ages(qrow, qrow') /\ \A t \in Templates \ {chain[c].template} : Untouched(t, qrow, qrow')
<1> DEFINE t == chain[c].template
<1>0. TemplateTypeOK /\ PlaceInv
  BY DEF TemplateInv
<1>1. CASE qrow' = qrow
  BY <1>1, SameRows
<1>2. ASSUME NEW k, At(c, "questions"), DestroyRow(t, k)
      PROVE  Ages(qrow, qrow') /\ \A u \in Templates \ {t} : Untouched(u, qrow, qrow')
  BY <1>0, <1>2, AtWorks, StepTemplate, DestroyRowAges
<1>3. ASSUME Sending(c), UpdateRow(t, Item(c))
      PROVE  Ages(qrow, qrow') /\ \A u \in Templates \ {t} : Untouched(u, qrow, qrow')
  BY <1>0, <1>3, SendingItem, StepTemplate, WriteRowAges DEF UpdateRow, RowsOf
<1>4. ASSUME NEW k \in RowIds, Sending(c), CreateRow(t, k, Item(c))
      PROVE  Ages(qrow, qrow') /\ \A u \in Templates \ {t} : Untouched(u, qrow, qrow')
  BY <1>0, <1>4, SendingItem, StepTemplate, WriteRowAges DEF CreateRow
<1>5. ASSUME At(c, "cleanup"), DestroyTemplate(t)
      PROVE  Ages(qrow, qrow') /\ \A u \in Templates \ {t} : Untouched(u, qrow, qrow')
  BY <1>0, <1>5, AtWorks, StepTemplate, DestroyTemplateAges
<1>6. CASE SaveQuiz(c) \/ TemplateAnswered(c) \/ Refused(c) \/ Unprocessed(c)
  <2>1. qrow' = qrow
    BY <1>6 DEF SaveQuiz, TemplateAnswered, CreateTemplate, Refused, Unprocessed, tableVars
  <2>2. QED
    BY <1>1, <2>1
<1>7. CASE RemovalAnswered(c) \/ UpdateAnswered(c) \/ AdditionAnswered(c) \/ CleanupAnswered(c)
  BY <1>2, <1>3, <1>4, <1>5, <1>7
     DEF RemovalAnswered, UpdateAnswered, AdditionAnswered, CleanupAnswered, Removing
<1>8. CASE AnswerLost(c)
  <2>1. \/ qrow' = qrow
        \/ \E k \in RowIds : Removing(c, k) /\ DestroyRow(t, k)
        \/ Sending(c) /\ UpdateRow(t, Item(c))
        \/ Sending(c) /\ \E k \in RowIds : CreateRow(t, k, Item(c))
        \/ At(c, "cleanup") /\ DestroyTemplate(t)
    BY <1>8 DEF AnswerLost, CreateTemplate
  <2>2. QED
    BY <1>1, <1>2, <1>3, <1>4, <1>5, <2>1 DEF Removing
<1>9. QED
  BY <1>6, <1>7, <1>8 DEF SaveStep

-------------------------------------------------------------------------------
(* What the form knows of the rows, and the invariant.                       *)

Quiet == \A c \in Chains : Working(c) /\ chain[c].heard => chain[c].step = "template"
\* The rows of the template are those the form began with, as it lists them.
ListsRows ==
  /\ RowsOf(target) = original
  /\ \A i \in DOMAIN selected :
       selected[i].id # 0 =>
         /\ qrow[selected[i].id].template = target
         /\ qrow[selected[i].id].question = selected[i].question
FormRows ==
  /\ Apart(selected) /\ \A k \in Known(selected) \cup kept : qrow[k] # Unmade
  /\ form = "closed" => Known(selected) = {}
  /\ form = "edit" /\ target \notin crossed =>
       /\ \A k \in kept : qrow[k].template = target => k \in original
       /\ ~broken /\ Quiet => ListsRows
  /\ form = "create" /\ ~broken /\ Quiet => Known(selected) = {}
SavesOK == \A c \in Chains : Working(c) => SaveOK(chain[c], qrow, kept, crossed)
RowInv == FormRows /\ SavesOK

\* The save that starts on a list is sound.
LEMMA BegunOK ==
  ASSUME TemplateInv, RowInv, NEW c \in Chains, Working(c), chain[c].heard,
         chain[c].step = "template", NEW new \in Saving,
         new.plan = selected, new.removed = original \ Known(selected),
         new.next = chain[c].next, new.again = chain[c].again,
         \/ new.template = chain[c].template
         \/ /\ chain[c].creates /\ new.template \in Templates
            /\ template[new.template] = "none"
  PROVE  SaveOK(new, qrow, kept, crossed)
<1> DEFINE t == new.template
<1>0. /\ TemplateTypeOK /\ PlaceInv /\ ThereInv /\ FormRows
      /\ SaveOK(chain[c], qrow, kept, crossed) /\ kept \subseteq RowIds
  BY DEF TemplateInv, TableInv, RowInv, SavesOK, TemplateTypeOK
<1>1. new.next = 1 /\ \A i \in DOMAIN new.plan : ~(i < new.next)
  <2>1. new.next = 1
    BY <1>0 DEF SaveOK, PlanSound
  <2>2. new.plan \in Seq(Entries)
    BY DEF Saving
  <2>3. QED
    BY <2>1, <2>2
<1>2. PlanSound(new, qrow)
  BY <1>0, <1>1 DEF PlanSound, FormRows
<1>3. CASE chain[c].creates
  <2>1. t = 0 \/ (t \in Templates /\ Of(qrow, t) = {})
    <3>1. t = 0 \/ (t \in Templates /\ template[t] = "none")
      BY <1>0, <1>3 DEF PlaceInv, Placed
    <3>2. QED
      BY <1>0, <3>1, Constants DEF ThereInv, Of
  <2>2. t \in Templates => PlanDone(new, qrow, kept)
    BY <1>0, <1>1, <2>1, Constants DEF PlanDone, Of
  <2>3. ~new.again => Known(selected) = {} /\ new.removed = {}
    BY <1>0, <1>3 DEF PlaceInv, Attached, FormInv, FormRows, Quiet
  <2>4. ~new.again /\ t \in Templates => PlanClean(new, qrow)
    BY <2>1, <2>3, KnownId, Constants DEF PlanClean
  <2>5. QED
    BY <1>2, <2>2, <2>3, <2>4 DEF SaveOK
<1>4. CASE ~chain[c].creates
  <2>1. form = "edit" /\ t = target /\ t \in Templates /\ (new.again = broken)
    BY <1>0, <1>4 DEF PlaceInv, Attached, FormInv
  <2>2. t \notin crossed => PlanDone(new, qrow, kept)
    BY <1>0, <1>1, <2>1 DEF PlanDone, FormRows
  <2>3. t \notin crossed /\ ~new.again => PlanClean(new, qrow)
    <3> SUFFICES ASSUME t \notin crossed, ~new.again PROVE PlanClean(new, qrow)
      OBVIOUS
    <3>1. Quiet
      BY <1>0 DEF PlaceInv, Quiet
    <3>2. ListsRows
      BY <1>0, <2>1, <3>1 DEF FormRows
    <3>3. Of(qrow, t) = original
      BY <2>1, <3>2 DEF ListsRows, Of, RowsOf
    <3>4. QED
      BY <2>1, <3>2, <3>3 DEF PlanClean, ListsRows
  <2>4. QED
    BY <1>2, <2>1, <2>2, <2>3, Constants DEF SaveOK
<1>5. QED
  BY <1>3, <1>4

\* The answer about the template: the save goes on to the questions.
LEMMA StartOK ==
  ASSUME TemplateInv, RowInv, NEW c \in Chains, At(c, "template"), NEW t \in Templates,
         \/ chain[c].creates /\ template[t] = "none"
         \/ ~chain[c].creates /\ t = chain[c].template
  PROVE  SaveOK(Start(c, t), qrow, kept, crossed)
<1> DEFINE new == Start(c, t)
<1>0. /\ TemplateTypeOK /\ PlaceInv /\ ThereInv /\ Working(c) /\ chain[c].step = "template"
      /\ chain[c] \in Saving /\ chain[c].heard \in BOOLEAN /\ kept \subseteq RowIds
  BY AtWorks, WorkingTyped DEF TemplateInv, TableInv, TemplateTypeOK
<1>1. /\ new \in Saving /\ new.template = t /\ new.step = "questions"
      /\ new.next = chain[c].next /\ new.again = chain[c].again
      /\ chain[c].heard => new.plan = selected /\ new.removed = original \ Known(selected)
      /\ ~chain[c].heard => new.plan = chain[c].plan /\ new.removed = chain[c].removed
  BY <1>0, StartFacts
<1> HIDE DEF new
<1>2. CASE chain[c].heard
  BY <1>0, <1>1, <1>2, BegunOK DEF new
<1>3. CASE ~chain[c].heard
  <2>1. SaveOK(chain[c], qrow, kept, crossed) /\ Planned(chain[c])
    BY <1>0, <1>3 DEF RowInv, SavesOK, Planned
  <2>2. new.next = 1 /\ \A i \in DOMAIN new.plan : ~(i < new.next)
    <3>1. new.next = 1
      BY <1>0, <1>1, <2>1 DEF SaveOK, PlanSound
    <3>2. new.plan \in Seq(Entries)
      BY <1>1 DEF Saving
    <3>3. QED
      BY <3>1, <3>2
  <2>3. PlanSound(new, qrow)
    BY <1>1, <1>3, <2>1, <2>2 DEF SaveOK, PlanSound
  <2>4. CASE chain[c].creates
    <3>1. Of(qrow, t) = {} /\ chain[c].template = 0
      BY <1>0, <2>4, Constants DEF PlaceInv, Placed, ThereInv, Of
    <3>2. PlanDone(new, qrow, kept)
      BY <1>0, <1>1, <2>2, <3>1 DEF PlanDone, Of
    <3>3. ~new.again => Known(new.plan) = {} /\ new.removed = {}
      BY <1>1, <1>3, <2>1, <3>1 DEF SaveOK
    <3>4. ~new.again => PlanClean(new, qrow)
      BY <1>1, <3>1, <3>3, KnownId DEF PlanClean
    <3>5. QED
      BY <1>1, <2>3, <3>2, <3>4, Constants DEF SaveOK, new
  <2>5. CASE ~chain[c].creates
    <3>1. t \notin crossed => PlanDone(new, qrow, kept)
      BY <1>1, <1>3, <2>1, <2>2, <2>5 DEF SaveOK, PlanDone
    <3>2. t \notin crossed /\ ~new.again => PlanClean(new, qrow)
      BY <1>1, <1>3, <2>1, <2>5 DEF SaveOK, PlanClean
    <3>3. QED
      BY <1>1, <2>3, <3>1, <3>2, Constants DEF SaveOK, new
  <2>6. QED
    BY <2>4, <2>5
<1>4. QED
  BY <1>0, <1>2, <1>3

\* A save is sound whether its form is there to hear its end or not.
LEMMA UnheardOK ==
  ASSUME TemplateInv, RowInv, NEW c \in Chains, Working(c)
  PROVE  SaveOK(Unheard(chain[c]), qrow, kept, crossed)
<1> DEFINE save == chain[c]
           new == Unheard(save)
<1>0. TemplateTypeOK /\ PlaceInv /\ save \in Saving /\ SaveOK(save, qrow, kept, crossed)
  BY WorkingTyped DEF TemplateInv, RowInv, SavesOK
<1>1. /\ new \in Saving /\ new.template = save.template /\ new.step = save.step
      /\ new.next = save.next /\ new.again = save.again
      /\ save.heard /\ save.step = "template" =>
           new.plan = selected /\ new.removed = original \ Known(selected)
      /\ ~(save.heard /\ save.step = "template") =>
           new.plan = save.plan /\ new.removed = save.removed
  BY <1>0, UnheardFacts
<1> HIDE DEF new
<1>2. CASE save.heard /\ save.step = "template"
  BY <1>0, <1>1, <1>2, BegunOK DEF new
<1>3. CASE ~(save.heard /\ save.step = "template")
  <2>1. Planned(new) => Planned(save)
    BY <1>1, <1>3 DEF Planned
  <2>2. PlanSound(new, qrow)
    BY <1>0, <1>1, <1>3 DEF SaveOK, PlanSound
  <2>3. new.template \in Templates \ crossed => PlanDone(new, qrow, kept)
    BY <1>0, <1>1, <1>3, <2>1 DEF SaveOK, PlanDone
  <2>4. PlanClean(save, qrow) => PlanClean(new, qrow)
    BY <1>1, <1>3 DEF PlanClean
  <2>5. QED
    BY <1>0, <1>1, <1>3, <2>1, <2>2, <2>3, <2>4 DEF SaveOK, new
<1>4. QED
  BY <1>2, <1>3

\* The list, when an addition has been answered.
LEMMA MarkedRows ==
  ASSUME TemplateTypeOK, FormRows, NEW c \in Chains, NEW k \in RowIds, qrow[k] = Unmade,
         qrow'[k] # Unmade, Ages(qrow, qrow')
  PROVE  Apart(Marked(c, k)) /\ \A j \in Known(Marked(c, k)) : qrow'[j] # Unmade
<1> DEFINE list == Marked(c, k)
<1>1. /\ list \in Seq(Entries) /\ DOMAIN list = DOMAIN selected
      /\ \A i \in DOMAIN selected :
           /\ list[i].question = selected[i].question
           /\ \/ list[i].id = selected[i].id
              \/ list[i].id = k /\ selected[i].question = Item(c).question
  BY MarkedFacts
<1> HIDE DEF list
<1>2. /\ Apart(selected) /\ k # 0 /\ selected \in Seq(Entries)
      /\ \A i \in DOMAIN selected : selected[i].id # k
  <2>1. k \notin Known(selected) /\ k # 0
    BY Constants DEF FormRows
  <2>2. QED
    BY <2>1 DEF Known, FormRows, TemplateTypeOK
<1>3. Apart(list)
  BY <1>1, <1>2 DEF Apart
<1>4. Known(list) \subseteq Known(selected) \cup {k}
  BY <1>1 DEF Known
<1>5. Known(selected) \subseteq RowIds
  BY <1>2, SetsOfList
<1>6. QED
  BY <1>3, <1>4, <1>5 DEF FormRows, Ages, list

\* The same items, but for the id of one that was added.
SameItems(list, later) ==
  /\ DOMAIN later = DOMAIN list
  /\ \A i \in DOMAIN list :
       later[i].question = list[i].question /\ later[i].order = list[i].order
\* What an answer makes of its save.
Leads(c, save, list) ==
  /\ Working(c) /\ chain[c].step \in {"template", "questions"} /\ save.step = "questions"
  /\ save.creates = chain[c].creates /\ save.heard = chain[c].heard
  /\ save.again = chain[c].again
  /\ save.template \in Templates
  /\ \/ save.template = chain[c].template
     \/ /\ chain[c].step = "template" /\ chain[c].creates
        /\ template[save.template] = "none"
  /\ chain[c].step = "questions" => SameItems(chain[c].plan, save.plan)
  /\ SaveOK(save, qrow', kept, crossed)
  /\ Apart(list) /\ \A k \in Known(list) : qrow'[k] # Unmade
  /\ list = selected \/ chain[c].heard
Answered(c) ==
  TemplateAnswered(c) \/ RemovalAnswered(c) \/ UpdateAnswered(c) \/ AdditionAnswered(c)

LEMMA AnswerLeads ==
  ASSUME TemplateInv, RowInv, NEW c \in Chains, Answered(c)
  PROVE  \E save \in Saving, list \in Seq(Entries) :
           Leads(c, save, list) /\ \E objects : Proceeds(c, save, list, objects)
<1> DEFINE t == chain[c].template
<1>0. /\ TemplateTypeOK /\ PlaceInv /\ FormRows /\ SavesOK /\ selected \in Seq(Entries)
      /\ qrow \in TableRows
  BY DEF TemplateInv, RowInv, TemplateTypeOK, TableRows
<1>1. /\ Apart(selected) /\ \A k \in Known(selected) : qrow[k] # Unmade
      /\ Known(selected) \subseteq RowIds /\ Ages(qrow, qrow')
  BY <1>0, SetsOfList, RowSteps DEF FormRows, Answered, SaveStep
<1>2. \A k \in Known(selected) : qrow'[k] # Unmade
  BY <1>1 DEF Ages
<1>3. CASE TemplateAnswered(c)
  <2>1. /\ At(c, "template")
        /\ \E u \in Templates :
             /\ \/ chain[c].creates /\ CreateTemplate(u)
                \/ /\ ~chain[c].creates /\ u = chain[c].template /\ template[u] = "there"
                   /\ UNCHANGED tableVars
             /\ Proceeds(c, Start(c, u), selected,
                         IF chain[c].heard THEN Asked(selected) ELSE same)
    BY <1>0, <1>3, AnswerStarts
  <2>2. PICK u \in Templates :
          /\ \/ chain[c].creates /\ CreateTemplate(u)
             \/ /\ ~chain[c].creates /\ u = chain[c].template /\ template[u] = "there"
                /\ UNCHANGED tableVars
          /\ \E objects : Proceeds(c, Start(c, u), selected, objects)
    BY <2>1
  <2>3. qrow' = qrow /\ (\/ chain[c].creates /\ template[u] = "none"
                         \/ ~chain[c].creates /\ u = chain[c].template)
    BY <2>2 DEF CreateTemplate, tableVars
  <2>4. SaveOK(Start(c, u), qrow, kept, crossed)
    BY <2>1, <2>3, StartOK
  <2>5. /\ Start(c, u) \in Saving /\ Start(c, u).template = u /\ Start(c, u).step = "questions"
        /\ Start(c, u).creates = chain[c].creates
        /\ Start(c, u).heard = chain[c].heard /\ Start(c, u).again = chain[c].again
    BY <1>0, <2>1, StartFacts
  <2>6. Leads(c, Start(c, u), selected)
    BY <1>1, <1>2, <2>1, <2>3, <2>4, <2>5, AtWorks DEF Leads
  <2>7. QED
    BY <1>0, <2>2, <2>5, <2>6
<1>4. ASSUME At(c, "questions")
      PROVE  /\ Working(c) /\ chain[c].step = "questions" /\ chain[c] \in Saving
             /\ t \in Templates /\ SaveOK(chain[c], qrow, kept, crossed)
  BY <1>0, <1>4, AtWorks, WorkingTyped, StepTemplate DEF SavesOK
<1>5. CASE RemovalAnswered(c)
  <2>1. PICK k \in RowIds :
          /\ At(c, "questions") /\ k \in chain[c].removed /\ DestroyRow(t, k)
          /\ Proceeds(c, Removed(c, k), selected, same)
    BY <1>5 DEF RemovalAnswered, Removing, Removed
  <2>2. /\ Working(c) /\ chain[c].step = "questions" /\ chain[c] \in Saving
        /\ t \in Templates /\ SaveOK(chain[c], qrow, kept, crossed)
    BY <1>4, <2>1
  <2>3. /\ Removed(c, k) \in Saving /\ Removed(c, k).removed = chain[c].removed \ {k}
        /\ Removed(c, k).template = t /\ Removed(c, k).creates = chain[c].creates
        /\ Removed(c, k).step = chain[c].step /\ Removed(c, k).plan = chain[c].plan
        /\ Removed(c, k).next = chain[c].next /\ Removed(c, k).heard = chain[c].heard
        /\ Removed(c, k).again = chain[c].again
    BY <2>2, RemovedFacts
  <2>4. qrow[k].template = t /\ qrow' = [qrow EXCEPT ![k] = Deleted]
    BY <2>1 DEF DestroyRow, RowsOf
  <2>5. SaveOK(Removed(c, k), qrow', kept, crossed)
    BY <1>0, <2>1, <2>2, <2>3, <2>4, RemovalOK
  <2>6. Leads(c, Removed(c, k), selected)
    BY <1>1, <1>2, <2>2, <2>3, <2>5 DEF Leads, SameItems
  <2>7. QED
    BY <1>0, <2>1, <2>3, <2>6
<1>6. CASE UpdateAnswered(c)
  <2>1. /\ Sending(c) /\ Item(c).id # 0 /\ UpdateRow(t, Item(c))
        /\ Proceeds(c, Updated(c), selected, same)
    BY <1>6 DEF UpdateAnswered, Updated
  <2>2. /\ At(c, "questions") /\ chain[c].removed = {} /\ Item(c) = chain[c].plan[chain[c].next]
        /\ chain[c].next \in DOMAIN chain[c].plan
    BY <1>0, <2>1, SendingItem DEF Sending
  <2>3. /\ Working(c) /\ chain[c].step = "questions" /\ chain[c] \in Saving
        /\ t \in Templates /\ SaveOK(chain[c], qrow, kept, crossed)
    BY <1>4, <2>2
  <2>4. /\ Updated(c) \in Saving /\ Updated(c).next = chain[c].next + 1
        /\ Updated(c).template = chain[c].template /\ Updated(c).creates = chain[c].creates
        /\ Updated(c).step = chain[c].step /\ Updated(c).plan = chain[c].plan
        /\ Updated(c).removed = chain[c].removed /\ Updated(c).heard = chain[c].heard
        /\ Updated(c).again = chain[c].again
    BY <2>3, UpdatedFacts
  <2>5. qrow[Item(c).id].template = t /\ qrow' = [qrow EXCEPT ![Item(c).id] = Holds(t, Item(c))]
    BY <2>1 DEF UpdateRow, WriteRow, RowsOf, Holds
  <2>6. SaveOK(Updated(c), qrow', kept, crossed)
    BY <1>0, <2>1, <2>2, <2>3, <2>4, <2>5, UpdateOK
  <2>7. Leads(c, Updated(c), selected)
    BY <1>1, <1>2, <2>3, <2>4, <2>6 DEF Leads, SameItems
  <2>8. QED
    BY <1>0, <2>1, <2>4, <2>7
<1>7. CASE AdditionAnswered(c)
  <2>1. PICK k \in RowIds :
          /\ Sending(c) /\ Item(c).id = 0 /\ CreateRow(t, k, Item(c))
          /\ Proceeds(c, Numbered(chain[c], k), Marked(c, k), same)
    BY <1>7 DEF AdditionAnswered, Numbered
  <2>2. /\ At(c, "questions") /\ chain[c].removed = {} /\ Item(c) = chain[c].plan[chain[c].next]
        /\ chain[c].next \in DOMAIN chain[c].plan /\ chain[c].next \in 1..Len(chain[c].plan)
    BY <1>0, <2>1, SendingItem DEF Sending
  <2>3. /\ Working(c) /\ chain[c].step = "questions" /\ chain[c] \in Saving
        /\ t \in Templates /\ SaveOK(chain[c], qrow, kept, crossed)
    BY <1>4, <2>2
  <2> DEFINE new == Numbered(chain[c], k)
  <2>4. /\ new \in Saving /\ new.next = chain[c].next + 1
        /\ new.template = t /\ new.creates = chain[c].creates /\ new.step = chain[c].step
        /\ new.removed = chain[c].removed /\ new.heard = chain[c].heard
        /\ new.again = chain[c].again /\ DOMAIN new.plan = DOMAIN chain[c].plan
        /\ \A i \in DOMAIN chain[c].plan :
             /\ new.plan[i].question = chain[c].plan[i].question
             /\ new.plan[i].order = chain[c].plan[i].order
             /\ new.plan[i].id = IF i = chain[c].next THEN k ELSE chain[c].plan[i].id
    BY <2>2, <2>3, NumberedFacts
  <2> HIDE DEF new
  <2>5. /\ qrow[k] = Unmade /\ qrow' = [qrow EXCEPT ![k] = Holds(t, Item(c))]
        /\ qrow'[k] # Unmade
    <3>1. qrow[k] = Unmade /\ qrow' = [qrow EXCEPT ![k] = Holds(t, Item(c))]
      BY <2>1 DEF CreateRow, WriteRow, Holds
    <3>2. QED
      BY <1>0, <2>3, <3>1, HoldsFacts DEF TableRows
  <2>6. SaveOK(new, qrow', kept, crossed)
    BY <1>0, <2>1, <2>2, <2>3, <2>4, <2>5, AdditionOK DEF FormRows
  <2>7. Apart(Marked(c, k)) /\ \A j \in Known(Marked(c, k)) : qrow'[j] # Unmade
    BY <1>0, <1>1, <2>5, MarkedRows
  <2>8. Marked(c, k) \in Seq(Entries) /\ (Marked(c, k) = selected \/ chain[c].heard)
    <3>1. ASSUME ~chain[c].heard PROVE Marked(c, k) = selected
      BY <1>0, <3>1 DEF Marked
    <3>2. QED
      BY <1>0, <3>1, MarkedFacts
  <2>9. Leads(c, new, Marked(c, k))
    BY <2>3, <2>4, <2>6, <2>7, <2>8 DEF Leads, SameItems
  <2>10. QED
    BY <2>1, <2>4, <2>8, <2>9 DEF new
<1>8. QED
  BY <1>3, <1>5, <1>6, <1>7 DEF Answered

-------------------------------------------------------------------------------
(* Every step keeps what the saves and the form know of the rows.            *)

\* What a save that is complete has listed is in its template, or deleted.
LEMMA ListedRows ==
  ASSUME NEW save \in Saving, NEW rows, PlanSound(save, rows), Complete(save)
  PROVE  \A k \in Known(save.plan) : rows[k].template \in {0, save.template} /\ rows[k] # Unmade
<1>1. save.plan \in Seq(Entries) /\ save.next \in Nat
  BY DEF Saving
<1>2. \A i \in DOMAIN save.plan : i < save.next
  BY <1>1 DEF Complete
<1>3. QED
  BY <1>2 DEF PlanSound, Known

\* A save goes on; another one is in its template only if that is crossed.
LEMMA OthersStay ==
  ASSUME TemplateInv, CrossInv, NEW c \in Chains, Working(c), SaveStep(c),
         NEW d \in Chains \ {c}, Working(d), NEW save \in Saving,
         save.template = chain[d].template, SaveOK(save, qrow, kept, crossed),
         NEW kept2 \in SUBSET RowIds,
         save.template \in Templates \ crossed =>
           \A k \in kept2 : k \in kept \/ qrow'[k].template # save.template
  PROVE  SaveOK(save, qrow', kept2, crossed)
<1>1. /\ Ages(qrow, qrow')
      /\ \A t \in Templates \ {chain[c].template} : Untouched(t, qrow, qrow')
  BY RowSteps
<1>2. save.template \in Templates \ crossed => Untouched(save.template, qrow, qrow')
  BY <1>1 DEF CrossInv
<1>3. QED
  BY <1>1, <1>2, SaveStays

LEMMA FormStays ==
  ASSUME TemplateTypeOK, FormRows, UNCHANGED <<form, target, selected, original>>,
         Ages(qrow, qrow'), crossed \subseteq crossed', broken => broken',
         \A k \in kept' : k \in kept \/ qrow'[k] # Unmade,
         form = "edit" /\ target \notin crossed =>
           \A k \in kept' : k \in kept \/ qrow'[k].template # target,
         ~broken' /\ Quiet' =>
           Quiet /\ (form = "edit" /\ target \notin crossed => Untouched(target, qrow, qrow')),
         form = "edit" => target # 0
  PROVE  FormRows'
<1>0. /\ selected \in Seq(Entries) /\ Known(selected) \subseteq RowIds /\ kept \subseteq RowIds
      /\ \A i \in DOMAIN selected : selected[i].id # 0 => selected[i].id \in RowIds
  BY SetsOfList, EntriesInRange, Constants DEF TemplateTypeOK, RowIds
<1>1. Apart(selected)' /\ \A k \in Known(selected) \cup kept' : qrow'[k] # Unmade
  BY <1>0 DEF FormRows, Ages
<1>2. form' = "edit" /\ target' \notin crossed' =>
        \A k \in kept' : qrow'[k].template = target' => k \in original'
  BY <1>0 DEF FormRows, Ages
<1>3. form' = "edit" /\ target' \notin crossed' /\ ~broken' /\ Quiet' => ListsRows'
  <2> SUFFICES ASSUME form' = "edit", target' \notin crossed', ~broken', Quiet' PROVE ListsRows'
    OBVIOUS
  <2>1. ListsRows /\ Untouched(target, qrow, qrow')
    BY DEF FormRows
  <2>2. RowsOf(target)' = original'
    BY <2>1 DEF ListsRows, RowsOf, Untouched
  <2>3. \A i \in DOMAIN selected : selected[i].id # 0 =>
          qrow'[selected[i].id] = qrow[selected[i].id]
    BY <1>0, <2>1 DEF ListsRows, Untouched
  <2>4. QED
    BY <2>1, <2>2, <2>3 DEF ListsRows
<1>4. QED
  BY <1>1, <1>2, <1>3 DEF FormRows

LEMMA ClosedForm ==
  ASSUME TemplateTypeOK, FormRows, CloseForm, Ages(qrow, qrow'),
         \A k \in kept' : k \in kept \/ qrow'[k] # Unmade
  PROVE  FormRows'
<1>1. form' = "closed" /\ Known(selected') = {} /\ Apart(selected')
  BY EmptyList DEF CloseForm, Apart
<1>2. \A k \in kept' : qrow'[k] # Unmade
  BY DEF FormRows, Ages, TemplateTypeOK
<1>3. QED
  BY <1>1, <1>2 DEF FormRows

\* An answer, by what it makes of its save.
LEMMA AnswerSaves ==
  ASSUME TemplateInv, TemplateTypeOK', CrossInv, RowInv, NEW c \in Chains, Answered(c)
  PROVE  SavesOK'
<1>0. TemplateTypeOK /\ SavesOK /\ SaveStep(c) /\ kept' \subseteq RowIds
  BY DEF TemplateInv, RowInv, Answered, SaveStep, TemplateTypeOK
<1>1. crossed' = crossed
  BY DEF Answered, TemplateAnswered, RemovalAnswered, UpdateAnswered, AdditionAnswered
<1>2. PICK save \in Saving, list \in Seq(Entries) :
        Leads(c, save, list) /\ \E objects : Proceeds(c, save, list, objects)
  BY AnswerLeads
<1>3. /\ Working(c)
      /\ \/ save.template = chain[c].template
         \/ template[save.template] = "none"
      /\ SaveOK(save, qrow', kept, crossed) /\ save.template \in Templates
  BY <1>2 DEF Leads
<1>4. CASE ~Complete(save)
  <2>1. chain' = [chain EXCEPT ![c] = save] /\ kept' = kept
    BY <1>2, <1>4 DEF Proceeds
  <2>2. \A d \in Chains : chain'[d] = IF d = c THEN save ELSE chain[d]
    BY <2>1 DEF TemplateInv, TemplateTypeOK
  <2>3. \A d \in Chains \ {c} : Working(d)' => SaveOK(chain[d], qrow', kept', crossed)
    <3> SUFFICES ASSUME NEW d \in Chains \ {c}, Working(d)'
                 PROVE  SaveOK(chain[d], qrow', kept', crossed)
      OBVIOUS
    <3>1. Working(d) /\ chain[d] \in Saving /\ SaveOK(chain[d], qrow, kept, crossed)
      BY <1>0, <2>2, WorkingTyped DEF Working, SavesOK
    <3>2. QED
      BY <1>0, <1>3, <2>1, <3>1, OthersStay
  <2>4. QED
    BY <1>1, <1>3, <2>1, <2>2, <2>3 DEF SavesOK
<1>5. CASE Complete(save)
  <2>1. Finish(c, save)
    BY <1>2, <1>5 DEF Proceeds
  <2>2. kept' = kept \cup Known(save.plan)
    BY <2>1 DEF Finish
  <2>3. chain'[c] = NoChain /\ \A d \in Chains \ {c} :
          chain'[d] = chain[d] \/ chain'[d] = Unheard(chain[d])
    <3>1. \/ chain' = [d \in Chains |-> IF d = c THEN NoChain ELSE Unheard(chain[d])]
          \/ chain' = [chain EXCEPT ![c] = NoChain]
      BY <2>1 DEF Finish, Ends
    <3>2. QED
      BY <3>1 DEF TemplateInv, TemplateTypeOK
  <2>4. \A k \in Known(save.plan) : qrow'[k].template \in {0, save.template}
    BY <1>3, <1>5, ListedRows DEF SaveOK
  <2>5. \A d \in Chains \ {c} : Working(d)' => SaveOK(chain'[d], qrow', kept', crossed)
    <3> SUFFICES ASSUME NEW d \in Chains \ {c}, Working(d)'
                 PROVE  SaveOK(chain'[d], qrow', kept', crossed)
      OBVIOUS
    <3>1. Working(d) /\ chain[d] \in Saving
      BY <1>0, <2>3, UnheardNothing, WorkingTyped DEF Working
    <3>2. /\ chain'[d] \in Saving /\ chain'[d].template = chain[d].template
          /\ SaveOK(chain'[d], qrow, kept, crossed)
      <4>1. CASE chain'[d] = chain[d]
        BY <1>0, <3>1, <4>1 DEF SavesOK
      <4>2. CASE chain'[d] = Unheard(chain[d])
        BY <1>0, <3>1, <4>2, UnheardFacts, UnheardOK
      <4>3. QED
        BY <2>3, <4>1, <4>2
    <3>3. chain[d].template \in Templates \ crossed => save.template # chain[d].template
      BY <1>3, <3>1 DEF CrossInv, Stands
    <3>4. chain[d].template \in Templates \ crossed =>
            \A k \in kept' : k \in kept \/ qrow'[k].template # chain[d].template
      BY <2>2, <2>4, <3>3, Constants
    <3>5. QED
      BY <1>0, <1>3, <3>1, <3>2, <3>4, OthersStay
  <2>6. QED
    BY <1>1, <2>3, <2>5 DEF SavesOK, Working
<1>6. QED
  BY <1>4, <1>5

\* Only its own save is in the template of a form, if that is not crossed.
LEMMA OwnTemplate ==
  ASSUME TemplateInv, CrossInv, form = "edit", target \notin crossed,
         NEW c \in Chains, Working(c), ~chain[c].heard
  PROVE  chain[c].template # target /\ target \in Templates
  BY DEF CrossInv, TemplateInv, PlaceInv, FormInv

LEMMA AnswerForm ==
  ASSUME TemplateInv, CrossInv, RowInv, NEW c \in Chains, Answered(c)
  PROVE  FormRows'
<1>0. /\ TemplateTypeOK /\ PlaceInv /\ FormRows /\ SaveStep(c)
      /\ chain \in [Chains -> Saving \cup {NoChain}]
      /\ form = "edit" => target # 0
  BY Constants DEF TemplateInv, TemplateTypeOK, RowInv, Answered, SaveStep, PlaceInv, FormInv
<1>1. crossed' = crossed
  BY DEF Answered, TemplateAnswered, RemovalAnswered, UpdateAnswered, AdditionAnswered
<1>2. PICK save \in Saving, list \in Seq(Entries) :
        Leads(c, save, list) /\ \E objects : Proceeds(c, save, list, objects)
  BY AnswerLeads
<1>3. /\ Working(c) /\ save.step = "questions" /\ save.template \in Templates
      /\ save.creates = chain[c].creates /\ save.heard = chain[c].heard
      /\ save.again = chain[c].again /\ chain[c].heard \in BOOLEAN
      /\ chain[c].step # "cleanup"
      /\ \/ save.template = chain[c].template
         \/ save.creates /\ template[save.template] = "none"
      /\ SaveOK(save, qrow', kept, crossed)
      /\ Apart(list) /\ \A k \in Known(list) : qrow'[k] # Unmade
      /\ list = selected \/ chain[c].heard
  BY <1>0, <1>2, WorkingTyped DEF Leads
<1>4. /\ Ages(qrow, qrow')
      /\ \A t \in Templates \ {chain[c].template} : Untouched(t, qrow, qrow')
  BY <1>0, RowSteps
<1>5. form = "edit" /\ target \notin crossed /\ ~save.heard =>
        /\ Untouched(target, qrow, qrow') /\ save.template # target
  <2> SUFFICES ASSUME form = "edit", target \notin crossed, ~save.heard
               PROVE  Untouched(target, qrow, qrow') /\ save.template # target
    OBVIOUS
  <2>1. chain[c].template # target /\ target \in Templates
    BY <1>3, OwnTemplate
  <2>2. template[target] # "none"
    BY DEF CrossInv, Stands
  <2>3. QED
    BY <1>3, <1>4, <2>1, <2>2
<1>6. CASE ~Complete(save)
  <2>1. /\ chain' = [chain EXCEPT ![c] = save] /\ selected' = list
        /\ UNCHANGED <<form, target, original, broken, kept>>
    BY <1>2, <1>6 DEF Proceeds
  <2>2. \A d \in Chains : chain'[d] = IF d = c THEN save ELSE chain[d]
    BY <1>0, <2>1
  <2>3. CASE ~save.heard
    <3>1. selected' = selected
      BY <1>3, <2>1, <2>3
    <3>2. Quiet' => Quiet
      BY <1>3, <2>2, <2>3 DEF Quiet, Working
    <3>3. QED
      BY <1>0, <1>1, <1>4, <1>5, <2>1, <2>3, <3>1, <3>2, FormStays
  <2>4. CASE save.heard
    <3>1. ~Quiet' /\ form' # "closed"
      <4>1. chain'[c] = save /\ save # NoChain
        BY <2>2, NoChainIsNoSave
      <4>2. ~Quiet'
        BY <1>3, <2>4, <4>1 DEF Quiet, Working
      <4>3. QED
        BY <1>0, <1>3, <2>1, <2>4, <4>2 DEF PlaceInv, Attached
    <3>2. \A k \in Known(selected') \cup kept' : qrow'[k] # Unmade
      BY <1>0, <1>3, <1>4, <2>1 DEF FormRows, Ages, TemplateTypeOK
    <3>3. form' = "edit" /\ target' \notin crossed' =>
            \A k \in kept' : qrow'[k].template = target' => k \in original'
      BY <1>0, <1>1, <1>4, <2>1 DEF FormRows, Ages, TemplateTypeOK
    <3>4. QED
      BY <1>3, <2>1, <3>1, <3>2, <3>3 DEF FormRows
  <2>5. QED
    BY <1>3, <2>3, <2>4
<1>7. CASE Complete(save)
  <2>1. Finish(c, save)
    BY <1>2, <1>7 DEF Proceeds
  <2>2. kept' = kept \cup Known(save.plan)
    BY <2>1 DEF Finish
  <2>3. \A k \in Known(save.plan) : qrow'[k].template \in {0, save.template} /\ qrow'[k] # Unmade
    BY <1>3, <1>7, ListedRows DEF SaveOK
  <2>4. CASE save.creates
    <3>1. CloseForm
      BY <2>1, <2>4 DEF Finish
    <3>2. QED
      BY <1>0, <1>4, <2>2, <2>3, <3>1, ClosedForm
  <2>5. CASE ~save.creates /\ ~save.heard
    <3>1. chain' = [chain EXCEPT ![c] = NoChain] /\ UNCHANGED formVars
      BY <2>1, <2>5 DEF Finish, Ends
    <3>2. Quiet' => Quiet
      BY <1>0, <1>3, <2>5, <3>1 DEF Quiet, Working
    <3>3. QED
      BY <1>0, <1>1, <1>4, <1>5, <2>2, <2>3, <2>5, <3>1, <3>2, FormStays DEF formVars
  <2>6. CASE ~save.creates /\ save.heard
    <3>1. /\ selected' = Renumber(save.plan) /\ original' = Known(save.plan)
          /\ UNCHANGED <<form, target, broken>>
      BY <2>1, <2>6 DEF Finish, MarkBaseline
    <3>2. /\ form = "edit" /\ target = save.template /\ save.again = broken
          /\ save.removed = {} /\ save.plan \in Seq(Entries) /\ Planned(save)
      BY <1>0, <1>3, <1>7, <2>6 DEF PlaceInv, Attached, Complete, Planned, Saving
    <3>3. Apart(selected') /\ Known(selected') = Known(save.plan)
      BY <1>3, <3>1, <3>2, RenumberKeeps DEF SaveOK, PlanSound
    <3>4. \A k \in Known(selected') \cup kept' : qrow'[k] # Unmade
      BY <1>0, <1>4, <2>2, <2>3, <3>3 DEF FormRows, Ages, TemplateTypeOK
    <3>5. target' \notin crossed' =>
            \A k \in kept' : qrow'[k].template = target' => k \in original'
      BY <1>1, <1>3, <2>2, <3>1, <3>2 DEF SaveOK, PlanDone
    <3>6. target' \notin crossed' /\ ~broken' => ListsRows'
      <4> SUFFICES ASSUME target' \notin crossed', ~broken' PROVE ListsRows'
        OBVIOUS
      <4>1. PlanClean(save, qrow')
        BY <1>1, <1>3, <3>1, <3>2 DEF SaveOK
      <4>2. Known(save.plan) \subseteq Of(qrow', target)
        BY <3>2, <4>1, KnownRows DEF PlanClean, Known, Of
      <4>3. RowsOf(target)' = original'
        BY <3>1, <3>2, <4>1, <4>2 DEF PlanClean, Of, RowsOf
      <4>4. DOMAIN selected' = DOMAIN save.plan /\ \A i \in DOMAIN save.plan :
              selected'[i].question = save.plan[i].question /\ selected'[i].id = save.plan[i].id
        BY <3>1, <3>2, RenumberFacts
      <4>5. QED
        BY <3>1, <3>2, <4>1, <4>3, <4>4 DEF ListsRows, PlanClean
    <3>7. QED
      BY <3>1, <3>2, <3>3, <3>4, <3>5, <3>6 DEF FormRows
  <2>7. QED
    BY <1>3, <2>4, <2>5, <2>6
<1>8. QED
  BY <1>6, <1>7

\* A save that began, broke or was cleaned up.
LEMMA OtherSaves ==
  ASSUME TemplateInv, TemplateTypeOK', CrossInv, RowInv, NEW c \in Chains, SaveStep(c),
         ~Answered(c)
  PROVE  RowInv'
<1>0. /\ TemplateTypeOK /\ PlaceInv /\ FormRows /\ SavesOK /\ kept' \subseteq RowIds
      /\ chain \in [Chains -> Saving \cup {NoChain}]
      /\ form = "edit" => target # 0
  BY Constants DEF TemplateInv, TemplateTypeOK, RowInv, PlaceInv, FormInv
<1>1. Ages(qrow, qrow') /\ \A t \in Templates \ {chain[c].template} : Untouched(t, qrow, qrow')
  BY RowSteps
<1>2. CASE SaveQuiz(c)
  <2>1. /\ UNCHANGED <<form, target, selected, original, broken, qrow, kept, crossed>>
        /\ \A d \in Chains \ {c} : chain'[d] = chain[d]
        /\ chain'[c].plan = << >> /\ chain'[c].removed = {} /\ chain'[c].next = 1
        /\ chain'[c].step = "template" /\ chain'[c].heard = TRUE /\ ~Working(c)
    BY <1>0, <1>2 DEF SaveQuiz, formVars, tableVars, historyVars
  <2>2. SaveOK(chain'[c], qrow', kept', crossed')
    BY <2>1, EmptyList DEF SaveOK, PlanSound, PlanDone, Planned, Apart
  <2>3. SavesOK'
    BY <1>0, <2>1, <2>2 DEF SavesOK, Working
  <2>4. Quiet' => Quiet
    BY <2>1 DEF Quiet, Working
  <2>5. FormRows'
    BY <1>0, <2>1, <2>4, FormStays, SameRows
  <2>6. QED
    BY <2>3, <2>5 DEF RowInv
<1>3. ASSUME ~SaveQuiz(c) PROVE RowInv'
  <2>1. /\ Working(c) /\ UNCHANGED <<form, target, selected, original, kept, crossed>>
        /\ \A d \in Chains \ {c} : chain'[d] = chain[d]
        /\ \/ chain'[c] = NoChain
           \/ chain'[c].step = "cleanup" /\ chain'[c].plan = << >> /\ chain'[c].removed = {}
        /\ broken => broken'
        /\ chain[c].heard => broken'
    <3>1. CASE CleanupAnswered(c)
      <4>1. /\ Working(c) /\ chain[c].step = "cleanup" /\ chain' = [chain EXCEPT ![c] = NoChain]
            /\ UNCHANGED <<form, target, selected, original, broken, kept, crossed>>
        BY <3>1, AtWorks DEF CleanupAnswered, Ends, formVars, historyVars
      <4>2. chain[c].heard => broken
        BY <1>0, <4>1 DEF PlaceInv, Attached
      <4>3. QED
        BY <1>0, <4>1, <4>2
    <3>2. CASE Refused(c) \/ Unprocessed(c) \/ AnswerLost(c)
      <4>1. Working(c) /\ SaveBreaks(c) /\ UNCHANGED <<kept, crossed>>
        BY <3>2 DEF Refused, Unprocessed, AnswerLost, At, Removing, Sending, historyVars
      <4>2. QED
        BY <1>0, <4>1, BreaksFacts
    <3>3. QED
      BY <1>3, <3>1, <3>2 DEF SaveStep, Answered
  <2>2. Working(c)' => SaveOK(chain'[c], qrow', kept', crossed')
    BY <2>1, EmptyList DEF Working, SaveOK, PlanSound, PlanDone, Planned, Apart
  <2>3. \A d \in Chains \ {c} : Working(d)' => SaveOK(chain'[d], qrow', kept', crossed')
    <3> SUFFICES ASSUME NEW d \in Chains \ {c}, Working(d)'
                 PROVE  SaveOK(chain'[d], qrow', kept', crossed')
      OBVIOUS
    <3>1. Working(d) /\ chain[d] \in Saving /\ SaveOK(chain[d], qrow, kept, crossed)
      BY <1>0, <2>1, WorkingTyped DEF Working, SavesOK
    <3>2. QED
      BY <1>0, <2>1, <3>1, OthersStay
  <2>4. Quiet' /\ ~chain[c].heard => Quiet
    BY <2>1 DEF Quiet, Working
  <2>5. form = "edit" /\ target \notin crossed /\ ~chain[c].heard =>
          Untouched(target, qrow, qrow')
    BY <1>1, <2>1, OwnTemplate
  <2>6. ~broken' /\ Quiet' =>
          Quiet /\ (form = "edit" /\ target \notin crossed => Untouched(target, qrow, qrow'))
    BY <2>1, <2>4, <2>5
  <2>7. FormRows'
    BY <1>0, <1>1, <2>1, <2>6, FormStays
  <2>8. QED
    BY <2>2, <2>3, <2>7 DEF RowInv, SavesOK
<1>4. QED
  BY <1>2, <1>3

LEMMA RowInit == TemplateInit => RowInv
<1> SUFFICES ASSUME TemplateInit PROVE RowInv
  OBVIOUS
<1>1. form = "closed" /\ selected = << >> /\ \A c \in Chains : ~Working(c)
  BY DEF TemplateInit, Working
<1>2. \A k \in kept : qrow[k] # Unmade
  <2>1. PICK n \in 0..MaxRows, gap \in {0, 1} : \E questions \in [1..n -> Library] :
          /\ qrow = [k \in RowIds |->
               IF k \in 1..n
               THEN [template |-> 1, question |-> questions[k], order |-> k + gap]
               ELSE Unmade]
          /\ kept = 1..n
    BY DEF TemplateInit
  <2>2. PICK questions :
          qrow = [k \in RowIds |->
               IF k \in 1..n
               THEN [template |-> 1, question |-> questions[k], order |-> k + gap]
               ELSE Unmade]
    BY <2>1
  <2>3. 1..n \subseteq RowIds
    BY Constants DEF RowIds
  <2>4. \A k \in 1..n : qrow[k].template = 1
    BY <2>2, <2>3
  <2>5. QED
    BY <2>1, <2>4 DEF Unmade
<1>3. QED
  BY <1>1, <1>2, EmptyList DEF RowInv, FormRows, SavesOK, Apart

LEMMA RowStep ==
  TemplateInv /\ TemplateInv' /\ CrossInv /\ RowInv /\ [TemplateNext]_templateVars => RowInv'
<1> SUFFICES ASSUME TemplateInv, TemplateInv', CrossInv, RowInv, [TemplateNext]_templateVars
             PROVE  RowInv'
  OBVIOUS
<1>0. /\ TemplateTypeOK /\ TemplateTypeOK' /\ FormRows /\ SavesOK
      /\ chain \in [Chains -> Saving \cup {NoChain}] /\ kept \subseteq RowIds
      /\ form = "edit" => target # 0
  BY Constants DEF TemplateInv, TemplateTypeOK, RowInv, PlaceInv, FormInv
<1>1. CASE UNCHANGED templateVars
  <2>1. /\ UNCHANGED <<form, target, selected, original, broken, chain, qrow, kept, crossed>>
    BY <1>1 DEF templateVars, formVars, tableVars, historyVars
  <2>2. SavesOK'
    BY <1>0, <2>1 DEF SavesOK, Working
  <2>3. Quiet' => Quiet
    BY <2>1 DEF Quiet, Working
  <2>4. QED
    BY <1>0, <2>1, <2>2, <2>3, FormStays, SameRows DEF RowInv
<1>2. CASE OpenCreate
  <2>1. /\ UNCHANGED <<selected, chain, qrow, kept, crossed>>
        /\ form = "closed" /\ form' = "create"
    BY <1>2 DEF OpenCreate, tableVars, historyVars
  <2>2. QED
    BY <1>0, <2>1 DEF RowInv, FormRows, SavesOK, Working
<1>3. CASE LeaveForm \/ CloseTab
  <2>1. CloseForm /\ UNCHANGED <<qrow, kept, crossed>>
    BY <1>3 DEF LeaveForm, CloseTab, tableVars, historyVars
  <2>2. FormRows'
    BY <1>0, <2>1, SameRows, ClosedForm
  <2>3. SavesOK'
    <3> SUFFICES ASSUME NEW d \in Chains, Working(d)'
                 PROVE  SaveOK(chain'[d], qrow, kept, crossed)
      BY <2>1 DEF SavesOK
    <3>1. chain'[d] = Unheard(chain[d]) /\ Working(d)
      BY <1>3, UnheardNothing DEF LeaveForm, CloseTab, Working
    <3>2. QED
      BY <3>1, UnheardOK
  <2>4. QED
    BY <2>2, <2>3 DEF RowInv
<1>4. ASSUME NEW t \in Templates, OpenEdit(t) PROVE RowInv'
  <2>1. /\ form' = "edit" /\ target' = t /\ original' = RowsOf(t) /\ Apart(selected')
        /\ \A i \in DOMAIN selected' :
             /\ selected'[i].id \in RowsOf(t)
             /\ selected'[i].question = qrow[selected'[i].id].question
        /\ UNCHANGED <<chain, qrow, kept>> /\ crossed \subseteq crossed'
    BY <1>0, <1>4, OpenEditFacts DEF TemplateInv, TableInv
  <2>2. Known(selected') \subseteq RowsOf(t)
    BY <2>1 DEF Known
  <2>3. \A k \in RowsOf(t) : qrow[k] # Unmade /\ qrow[k].template = t
    BY Constants DEF RowsOf, Unmade
  <2>4. \A k \in kept : qrow[k].template = t => k \in RowsOf(t)
    BY <1>0 DEF RowsOf
  <2>5. ListsRows'
    BY <2>1, <2>3 DEF ListsRows, RowsOf
  <2>6. FormRows'
    BY <1>0, <2>1, <2>2, <2>3, <2>4, <2>5 DEF FormRows
  <2>7. SavesOK'
    <3> SUFFICES ASSUME NEW d \in Chains, Working(d)
                 PROVE  SaveOK(chain[d], qrow, kept, crossed')
      BY <2>1 DEF SavesOK, Working
    <3>1. chain[d] \in Saving /\ SaveOK(chain[d], qrow, kept, crossed)
      BY <1>0, WorkingTyped DEF SavesOK
    <3>2. Ages(qrow, qrow) /\ \A u : Untouched(u, qrow, qrow)
      BY Constants DEF Ages, Untouched
    <3>3. QED
      BY <1>0, <2>1, <3>1, <3>2, SaveStays
  <2>8. QED
    BY <2>6, <2>7 DEF RowInv
<1>5. CASE EditStep
  <2>1. /\ form # "closed"
        /\ UNCHANGED <<form, target, original, broken, chain, qrow, kept, crossed>>
        /\ Within(selected', selected) /\ Apart(selected')
    BY <1>0, <1>5, EditFacts DEF FormRows
  <2>2. Known(selected') \subseteq Known(selected)
    BY <2>1 DEF Within, Known
  <2>3. Quiet' => Quiet
    BY <2>1 DEF Quiet, Working
  <2>4. ListsRows => ListsRows'
    BY <2>1 DEF ListsRows, RowsOf, Within
  <2>5. FormRows'
    BY <1>0, <2>1, <2>2, <2>3, <2>4 DEF FormRows
  <2>6. SavesOK'
    BY <1>0, <2>1 DEF SavesOK, Working
  <2>7. QED
    BY <2>5, <2>6 DEF RowInv
<1>6. ASSUME NEW c \in Chains, SaveStep(c) PROVE RowInv'
  BY <1>0, <1>6, AnswerSaves, AnswerForm, OtherSaves DEF RowInv
<1>7. QED
  BY <1>1, <1>2, <1>3, <1>4, <1>5, <1>6 DEF TemplateNext

SavesInv == TemplateInv /\ CrossInv /\ RowInv

LEMMA SavesInvCorrect == TemplateSpec => []SavesInv
<1>1. TemplateInit => CrossInv /\ RowInv
  BY CrossInit, RowInit
<1>2. /\ TemplateInv /\ TemplateInv' /\ CrossInv /\ RowInv /\ [TemplateNext]_templateVars
      => CrossInv' /\ RowInv'
  BY CrossStep, RowStep
<1>3. QED
  BY <1>1, <1>2, TemplateInvCorrect, PTL DEF TemplateSpec, SavesInv

-------------------------------------------------------------------------------
(* What a save that ends well leaves, and why one is refused.                *)
LEMMA ListedStep ==
  ASSUME SavesInv, NEW c \in Chains, At(c, "questions"), ~Working(c)',
         RemovalAnswered(c) \/ UpdateAnswered(c) \/ AdditionAnswered(c),
         chain[c].template \notin crossed
  PROVE  /\ \A i \in DOMAIN chain[c].plan : \E k \in RowIds :
              qrow'[k] = [template |-> chain[c].template,
                          question |-> chain[c].plan[i].question,
                          order |-> chain[c].plan[i].order]
         /\ \A k \in RowIds :
              qrow'[k].template = chain[c].template =>
                qrow'[k].question \in Asked(chain[c].plan) \/ k \notin kept'
<1> DEFINE t == chain[c].template
           plan == chain[c].plan
<1>0. TemplateInv /\ RowInv /\ TemplateTypeOK /\ PlaceInv /\ Answered(c)
  BY DEF SavesInv, TemplateInv, Answered
<1>1. PICK save \in Saving, list \in Seq(Entries) :
        Leads(c, save, list) /\ \E objects : Proceeds(c, save, list, objects)
  BY <1>0, AnswerLeads
<1>2. Working(c) /\ chain[c].step = "questions" /\ t \in Templates /\ template[t] # "none"
  BY <1>0, AtWorks, StepTemplate DEF SavesInv, CrossInv, Stands
<1>3. /\ save.template = t
      /\ SaveOK(save, qrow', kept, crossed) /\ SameItems(plan, save.plan) /\ Planned(save)
  BY <1>0, <1>1, <1>2 DEF Leads, PlaceInv, Placed, Planned
<1>4. Complete(save) /\ Finish(c, save)
  <2>1. ASSUME ~Complete(save) PROVE FALSE
    <3>1. chain' = [chain EXCEPT ![c] = save]
      BY <1>1, <2>1 DEF Proceeds
    <3>2. chain'[c] = save
      BY <1>0, <3>1 DEF TemplateTypeOK
    <3>3. QED
      BY <3>2, NoChainIsNoSave DEF Working
  <2>2. QED
    BY <1>1, <2>1 DEF Proceeds
<1>5. /\ PlanSound(save, qrow') /\ PlanDone(save, qrow', kept) /\ save.removed = {}
      /\ kept' = kept \cup Known(save.plan)
  BY <1>2, <1>3, <1>4 DEF SaveOK, Complete, Finish
<1>6. \A i \in DOMAIN plan :
        /\ save.plan[i].id \in RowIds
        /\ qrow'[save.plan[i].id] = Holds(t, plan[i])
  <2>1. \A i \in DOMAIN plan : i < save.next
    <3>1. save.plan \in Seq(Entries) /\ save.next \in Nat
      BY DEF Saving
    <3>2. QED
      BY <1>3, <1>4, <3>1 DEF Complete, SameItems
  <2>2. \A i \in DOMAIN plan : save.plan[i].id \in RowIds
    BY <1>3, <1>5, <2>1, KnownId DEF PlanSound, SameItems
  <2>3. QED
    BY <1>3, <1>5, <2>1, <2>2 DEF PlanDone, SameItems, Holds
<1>7. ASSUME NEW k \in RowIds, qrow'[k].template = t, k \in kept'
      PROVE  qrow'[k].question \in Asked(plan)
  <2>1. k \in Known(save.plan)
    BY <1>3, <1>5, <1>7 DEF PlanDone
  <2>2. PICK i \in DOMAIN plan : save.plan[i].id = k
    BY <1>3, <2>1 DEF Known, SameItems
  <2>3. qrow'[k].question = plan[i].question
    BY <1>2, <1>6, <2>2, HoldsFacts
  <2>4. QED
    BY <2>3 DEF Asked
<1>8. QED
  BY <1>6, <1>7 DEF Holds

\* The rows a save that ends well leaves in its template are those of its list,
\* with the positions of the list, and perhaps rows that an earlier save added
\* which did not end well, unless two forms saved one template at a time.
THEOREM SavesAreListed == TemplateSpec => SavedAsListed
<1>1. SavesInv /\ [TemplateNext]_templateVars =>
        [\A c \in Chains :
           At(c, "questions") /\ ~Working(c)'
             /\ (RemovalAnswered(c) \/ UpdateAnswered(c) \/ AdditionAnswered(c)) =>
           LET t == chain[c].template
               plan == chain[c].plan
           IN \/ t \in crossed
              \/ /\ \A i \in DOMAIN plan : \E k \in RowIds :
                      qrow'[k] = [template |-> t, question |-> plan[i].question,
                                  order |-> plan[i].order]
                 /\ \A k \in RowIds :
                      qrow'[k].template = t =>
                        qrow'[k].question \in Asked(plan) \/ k \notin kept']_templateVars
  BY ListedStep
<1>2. QED
  BY <1>1, SavesInvCorrect, PTL DEF TemplateSpec, SavedAsListed

LEMMA RefusedStep ==
  ASSUME SavesInv, NEW c \in Chains, Refused(c), ~chain[c].again,
         chain[c].template \notin crossed
  PROVE  /\ Sending(c)
         /\ \E i \in DOMAIN chain[c].plan \ {chain[c].next} :
              /\ chain[c].plan[i].id # 0
              /\ qrow[chain[c].plan[i].id].template = chain[c].template
              /\ qrow[chain[c].plan[i].id].order = Item(c).order
<1> DEFINE t == chain[c].template
<1>0. TemplateTypeOK /\ PlaceInv /\ CrossInv /\ RowInv /\ Working(c)
  BY DEF SavesInv, TemplateInv, Refused, At, Removing, Sending
<1>1. chain[c] \in Saving /\ SaveOK(chain[c], qrow, kept, crossed)
  BY <1>0, WorkingTyped DEF RowInv, SavesOK
<1>2. ~(At(c, "template") /\ ~chain[c].creates /\ template[t] = "gone")
  BY <1>0 DEF CrossInv, Stands, PlaceInv, Placed
<1>3. ASSUME At(c, "questions")
      PROVE  t \in Templates /\ template[t] = "there" /\ PlanClean(chain[c], qrow)
  <2>1. chain[c].step = "questions" /\ t \in Templates
    BY <1>0, <1>3, AtWorks, StepTemplate
  <2>2. template[t] = "there"
    BY <1>0, <2>1 DEF CrossInv, Stands
  <2>3. QED
    BY <1>1, <2>1, <2>2 DEF SaveOK, Planned
<1>4. \A k \in RowIds : Removing(c, k) => k \in RowsOf(t)
  BY <1>3 DEF Removing, PlanClean, Of, RowsOf
<1>5. /\ Sending(c)
      /\ IF Item(c).id = 0
         THEN template[t] = "gone" \/ ~Admits(t, 0, Item(c))
         ELSE Item(c).id \notin RowsOf(t) \/ ~Admits(t, Item(c).id, Item(c))
  BY <1>2, <1>4 DEF Refused
<1>6. /\ t \in Templates /\ template[t] = "there" /\ PlanClean(chain[c], qrow)
      /\ chain[c].removed = {} /\ chain[c].next \in DOMAIN chain[c].plan
      /\ Item(c) = chain[c].plan[chain[c].next] /\ Item(c).id \in 0..MaxRows
  BY <1>0, <1>3, <1>5, SendingItem DEF Sending
<1>7. Item(c).id # 0 => Item(c).id \in RowsOf(t)
  BY <1>1, <1>6, KnownId DEF PlanClean, RowsOf
<1>8. PICK j \in RowsOf(t) \ {Item(c).id} :
        qrow[j].question = Item(c).question \/ qrow[j].order = Item(c).order
  BY <1>5, <1>6, <1>7 DEF Admits
<1>9. PICK i \in DOMAIN chain[c].plan : chain[c].plan[i].id = j /\ j # 0
  BY <1>6, <1>8 DEF PlanClean, Of, RowsOf, Known
<1>10. qrow[j].template = t /\ qrow[j].question = chain[c].plan[i].question
  BY <1>6, <1>9 DEF PlanClean
<1>11. i # chain[c].next
  BY <1>6, <1>8, <1>9
<1>12. chain[c].plan[i].question # Item(c).question
  BY <1>1, <1>6, <1>11 DEF SaveOK, PlanSound, Apart
<1>13. QED
  BY <1>5, <1>8, <1>9, <1>10, <1>11, <1>12

\* As long as no save of a form has failed, and no other form saves its template,
\* the server refuses a save only for the position of another item of the list.
THEOREM RefusalsAreOfPositions == TemplateSpec => OnlyPositionsRefused
<1>1. SavesInv /\ [TemplateNext]_templateVars =>
        [\A c \in Chains :
           Refused(c) /\ ~chain[c].again /\ chain[c].template \notin crossed =>
             /\ Sending(c)
             /\ \E i \in DOMAIN chain[c].plan \ {chain[c].next} :
                  LET k == chain[c].plan[i].id IN
                  k # 0 /\ qrow[k].template = chain[c].template
                        /\ qrow[k].order = Item(c).order]_templateVars
  BY RefusedStep
<1>2. QED
  BY <1>1, SavesInvCorrect, PTL DEF TemplateSpec, OnlyPositionsRefused
===============================================================================
