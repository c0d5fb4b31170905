---------------------------- MODULE TemplateEditor -----------------------------
(***************************************************************************)
(* The form in which an instructor composes a quiz template, QuizCreate,   *)
(* with the controller of its list of questions, the saves it has under    *)
(* way and the rows the server keeps.                                      *)
(*                                                                         *)
(* A save is a chain of requests, one after the other: the template, then  *)
(* for its questions the removals, the updates and the additions, in the   *)
(* order of the list, and, if a template could not be completed, its       *)
(* removal.  The chain stops at the first request that fails.  The list    *)
(* can be edited while it runs; it goes on when the form is left, and ends *)
(* with the tab.                                                           *)
(*                                                                         *)
(* An answer changes nothing that anybody but its chain reads, so that a   *)
(* request and its answer are one step, unless the answer is lost.  Of a   *)
(* question in a template only the position is kept, not the weight, which *)
(* travels with it.                                                        *)
(***************************************************************************)
EXTENDS Integers, Sequences, FiniteSets

CONSTANTS
  Library,       \* the questions of the domain
  MaxTemplates,  \* bound: templates ever made, the one there is included
  MaxRows,       \* bound: rows of questions in templates ever made
  Chains         \* bound: a slot for each save under way

ASSUME TemplateAssumption == MaxTemplates \in Nat \ {0} /\ MaxRows \in Nat

VARIABLES
  form,       \* "closed", "create" or "edit"
  target,     \* editingTemplateId, 0 for none
  selected,   \* _selectedQuestions: the list on the screen
  original,   \* _originalQuizQuestionIds
  same,       \* the questions whose item on the screen is the object of the save
  broken,     \* history: a save of this form has failed
  chain,      \* chain[c]: a save under way, or NoChain
  template,   \* template[t]: "none", "there" or "gone"
  qrow,       \* qrow[k]: the QuizQuestion row k, or Unmade, or Deleted
  finished,   \* history: the templates a save of which ended well
  kept,       \* history: the rows that were in the list of such a save
  crossed     \* history: the templates opened while a save of theirs went on

formVars == <<form, target, selected, original, same, broken>>
tableVars == <<template, qrow>>
historyVars == <<finished, kept, crossed>>
templateVars == <<formVars, chain, tableVars, historyVars>>

Templates == 1..MaxTemplates
RowIds == 1..MaxRows
Entries == [question : Library, id : 0..MaxRows, order : Nat]

Rows == [template : Templates, question : Library, order : Nat]
Unmade == [template |-> 0]
Deleted == [template |-> 0, deleted |-> TRUE]
RowsOf(t) == {k \in RowIds : qrow[k].template = t}

NoChain == [step |-> "none"]
Saving ==
  [template : 0..MaxTemplates, creates : BOOLEAN,
   step : {"template", "questions", "cleanup"},
   removed : SUBSET RowIds,   \* the rows still to be removed
   plan : Seq(Entries),       \* currentItems
   next : Nat \ {0},          \* the item whose turn it is
   heard : BOOLEAN,           \* the form that began it is still open
   again : BOOLEAN]           \* history: an earlier save of that form failed
Working(c) == chain[c] # NoChain
Busy == \E c \in Chains : Working(c) /\ chain[c].heard

Asked(list) == {list[i].question : i \in DOMAIN list}
Known(list) == {list[i].id : i \in DOMAIN list} \ {0}

\* A template with some questions; one before them may have been deleted.
TemplateInit ==
  /\ form = "closed" /\ target = 0 /\ selected = << >> /\ original = {}
  /\ same = {} /\ broken = FALSE
  /\ chain = [c \in Chains |-> NoChain]
  /\ template \in [Templates -> {"none", "there"}]
  /\ \A t \in Templates \ {1} : template[t] = "none"
  /\ \E n \in 0..MaxRows, gap \in {0, 1} : \E questions \in [1..n -> Library] :
       /\ template[1] = "none" => n = 0
       /\ \A i, j \in 1..n : questions[i] = questions[j] => i = j
       /\ qrow = [k \in RowIds |->
            IF k \in 1..n
            THEN [template |-> 1, question |-> questions[k], order |-> k + gap]
            ELSE Unmade]
       /\ kept = 1..n
  /\ finished = {t \in Templates : template[t] = "there"} /\ crossed = {}
-------------------------------------------------------------------------------
(* Opening and leaving the form. *)

OpenCreate ==
  /\ form = "closed" /\ form' = "create"
  /\ UNCHANGED <<target, selected, original, same, broken, chain, tableVars, historyVars>>

\* hydrate: the rows of the template, in the order of their positions.
OpenEdit(t) ==
  /\ form = "closed" /\ form' = "edit"
  /\ template[t] = "there" /\ target' = t
  /\ \E n \in 0..MaxRows : \E ids \in [1..n -> RowsOf(t)] :
       /\ \A k \in RowsOf(t) : \E i \in 1..n : ids[i] = k
       /\ \A i, j \in 1..n : i < j => qrow[ids[i]].order < qrow[ids[j]].order
       /\ selected' = [i \in 1..n |->
            [question |-> qrow[ids[i]].question, id |-> ids[i], order |-> qrow[ids[i]].order]]
  /\ original' = RowsOf(t)
  /\ crossed' = IF \E c \in Chains : Working(c) /\ chain[c].template = t
                THEN crossed \cup {t} ELSE crossed
  /\ UNCHANGED <<same, broken, chain, tableVars, finished, kept>>

\* syncWithServer: what is to be done, by the list of the moment.
Begun(save) == [save EXCEPT !.plan = selected, !.removed = original \ Known(selected)]

\* The form is destroyed; the save it began goes on, with the list of the end.
Unheard(save) ==
  CASE save = NoChain -> save
    [] save # NoChain /\ save.heard /\ save.step = "template" ->
         [Begun(save) EXCEPT !.heard = FALSE]
    [] OTHER -> [save EXCEPT !.heard = FALSE]
CloseForm ==
  /\ form' = "closed" /\ target' = 0 /\ selected' = << >> /\ original' = {}
  /\ same' = {} /\ broken' = FALSE

LeaveForm ==
  /\ form # "closed"
  /\ CloseForm
  /\ chain' = [c \in Chains |-> Unheard(chain[c])]
  /\ UNCHANGED <<tableVars, historyVars>>

CloseTab ==
  /\ CloseForm
  /\ chain' = [c \in Chains |-> NoChain]
  /\ UNCHANGED <<tableVars, historyVars>>
-------------------------------------------------------------------------------
(* The list of questions.  An item that is moved or changed is a new object. *)

Edits ==
  /\ form # "closed"
  /\ UNCHANGED <<form, target, original, broken, chain, tableVars, historyVars>>

AddExisting(q) ==
  /\ q \notin Asked(selected)
  /\ selected' = Append(selected, [question |-> q, id |-> 0, order |-> Len(selected) + 1])
  /\ UNCHANGED same
  /\ Edits

Renumber(list) == [i \in DOMAIN list |-> [list[i] EXCEPT !.order = i]]

RemoveItem(i) ==
  /\ selected' = Renumber([j \in 1..(Len(selected) - 1) |->
       IF j < i THEN selected[j] ELSE selected[j + 1]])
  /\ same' = {}
  /\ Edits

\* Up; an item moves down when the next one moves up.
MoveItem(i) ==
  /\ i > 1
  /\ selected' = Renumber([selected EXCEPT ![i] = selected[i - 1], ![i - 1] = selected[i]])
  /\ same' = {}
  /\ Edits

SetWeight(i) ==
  /\ same' = same \ {selected[i].question}
  /\ UNCHANGED selected
  /\ Edits

\* Another domain, or another mode, is chosen.
Clear ==
  /\ selected' = << >> /\ same' = {}
  /\ Edits
-------------------------------------------------------------------------------
(* A save: how it begins, goes on, ends and fails. *)

SaveQuiz(c) ==
  /\ form # "closed" /\ ~Busy /\ ~Working(c) /\ selected # << >>
  /\ chain' = [chain EXCEPT ![c] =
       [template |-> target, creates |-> form = "create", step |-> "template",
        removed |-> {}, plan |-> << >>, next |-> 1, heard |-> TRUE, again |-> broken]]
  /\ UNCHANGED <<formVars, tableVars, historyVars>>

Ends(c) == chain' = [chain EXCEPT ![c] = NoChain]

MarkBaseline(list) == original' = Known(list)

\* The last answer: the list becomes what was saved.  A template that was
\* created leads to the list of quizzes, whatever form is open by then.
Finish(c, save) ==
  /\ finished' = finished \cup {save.template}
  /\ kept' = kept \cup Known(save.plan)
  /\ IF save.creates
     THEN /\ CloseForm
          /\ chain' = [d \in Chains |-> IF d = c THEN NoChain ELSE Unheard(chain[d])]
     ELSE /\ Ends(c)
          /\ IF save.heard
             THEN /\ selected' = Renumber(save.plan) /\ same' = {}
                  /\ MarkBaseline(save.plan)
                  /\ UNCHANGED <<form, target, broken>>
             ELSE UNCHANGED formVars

\* Mutant: the last item is not waited for.
CompleteBeforeLast(save) == save.removed = {} /\ save.next >= Len(save.plan)

Complete(save) == save.removed = {} /\ save.next > Len(save.plan)

\* What the save has come to, the list and its objects being these.
Proceeds(c, save, list, objects) ==
  \/ /\ Complete(save)
     /\ Finish(c, save)
  \/ /\ ~Complete(save)
     /\ chain' = [chain EXCEPT ![c] = save]
     /\ selected' = list /\ same' = objects
     /\ UNCHANGED <<form, target, original, broken, finished, kept>>

\* Mutant: a template is removed only if its form is still open.
IncompleteIfHeard(save) ==
  save.creates /\ save.template # 0 /\ save.step # "cleanup" /\ save.heard

Incomplete(save) == save.creates /\ save.template # 0 /\ save.step # "cleanup"

\* The catch of saveQuiz: a template that was to be created is removed.
SaveBreaks(c) ==
  /\ IF Incomplete(chain[c])
     THEN chain' = [chain EXCEPT ![c].step = "cleanup", ![c].removed = {}, ![c].plan = << >>]
     ELSE Ends(c)
  /\ broken' = (broken \/ chain[c].heard)
  /\ same' = IF chain[c].heard THEN {} ELSE same
  /\ UNCHANGED <<form, target, selected, original>>
-------------------------------------------------------------------------------
(* The requests at the server. *)

At(c, step) == Working(c) /\ chain[c].step = step
Removing(c, k) == At(c, "questions") /\ k \in chain[c].removed
\* Mutant: the items are sent beside the removals.
SendingAtOnce(c) == At(c, "questions") /\ chain[c].next <= Len(chain[c].plan)

Sending(c) ==
  /\ At(c, "questions") /\ chain[c].removed = {} /\ chain[c].next <= Len(chain[c].plan)
Item(c) == chain[c].plan[chain[c].next]

CreateTemplate(t) ==
  /\ template[t] = "none" /\ \A u \in 1..(t - 1) : template[u] # "none"
  /\ template' = [template EXCEPT ![t] = "there"]
  /\ UNCHANGED qrow

\* A row that does not belong to the template is not found.
DestroyRow(t, k) ==
  /\ k \in RowsOf(t)
  /\ qrow' = [qrow EXCEPT ![k] = Deleted]
  /\ UNCHANGED template

\* No other row of the template has the question, or the position.
Admits(t, k, item) ==
  \A j \in RowsOf(t) \ {k} :
    qrow[j].question # item.question /\ qrow[j].order # item.order

WriteRow(t, k, item) ==
  /\ Admits(t, k, item)
  /\ qrow' = [qrow EXCEPT ![k] =
       [template |-> t, question |-> item.question, order |-> item.order]]
  /\ UNCHANGED template
UpdateRow(t, item) == item.id \in RowsOf(t) /\ WriteRow(t, item.id, item)
CreateRow(t, k, item) ==
  /\ template[t] = "there"
  /\ qrow[k] = Unmade /\ \A j \in 1..(k - 1) : qrow[j] # Unmade
  /\ WriteRow(t, k, item)

\* With its rows.
DestroyTemplate(t) ==
  /\ template' = [template EXCEPT ![t] = "gone"]
  /\ qrow' = [k \in RowIds |-> IF k \in RowsOf(t) THEN Deleted ELSE qrow[k]]
-------------------------------------------------------------------------------
(* The requests and their answers. *)

TemplateAnswered(c) ==
  LET save == IF chain[c].heard THEN Begun(chain[c]) ELSE chain[c] IN
  /\ At(c, "template")
  /\ \E t \in Templates :
       /\ \/ save.creates /\ CreateTemplate(t)
          \/ ~save.creates /\ t = save.template /\ template[t] = "there" /\ UNCHANGED tableVars
       /\ Proceeds(c, [save EXCEPT !.template = t, !.step = "questions"], selected,
                   IF save.heard THEN Asked(selected) ELSE same)
  /\ UNCHANGED crossed

RemovalAnswered(c) ==
  /\ \E k \in RowIds :
       /\ Removing(c, k)
       /\ DestroyRow(chain[c].template, k)
       /\ Proceeds(c, [chain[c] EXCEPT !.removed = @ \ {k}], selected, same)
  /\ UNCHANGED crossed

UpdateAnswered(c) ==
  /\ Sending(c) /\ Item(c).id # 0
  /\ UpdateRow(chain[c].template, Item(c))
  /\ Proceeds(c, [chain[c] EXCEPT !.next = @ + 1], selected, same)
  /\ UNCHANGED crossed

\* The item that was sent gets its id, and the list if it still has that item.
Marked(c, k) ==
  [i \in DOMAIN selected |->
     IF chain[c].heard /\ selected[i].question = Item(c).question /\ Item(c).question \in same
     THEN [selected[i] EXCEPT !.id = k] ELSE selected[i]]
AdditionAnswered(c) ==
  /\ Sending(c) /\ Item(c).id = 0
  /\ \E k \in RowIds :
       /\ CreateRow(chain[c].template, k, Item(c))
       /\ Proceeds(c, [chain[c] EXCEPT !.next = @ + 1, !.plan[chain[c].next].id = k],
                   Marked(c, k), same)
  /\ UNCHANGED crossed

CleanupAnswered(c) ==
  /\ At(c, "cleanup")
  /\ DestroyTemplate(chain[c].template)
  /\ Ends(c)
  /\ UNCHANGED <<formVars, historyVars>>

\* The template is gone, or the row; or the question, or the position, is taken.
Refused(c) ==
  LET t == chain[c].template IN
  /\ \/ At(c, "template") /\ ~chain[c].creates /\ template[t] = "gone"
     \/ \E k \in RowIds : Removing(c, k) /\ k \notin RowsOf(t)
     \/ /\ Sending(c)
        /\ IF Item(c).id = 0
           THEN template[t] = "gone" \/ ~Admits(t, 0, Item(c))
           ELSE Item(c).id \notin RowsOf(t) \/ ~Admits(t, Item(c).id, Item(c))
  /\ SaveBreaks(c)
  /\ UNCHANGED <<tableVars, historyVars>>

\* Lost before it is processed, or refused for another reason.
Unprocessed(c) ==
  /\ Working(c)
  /\ SaveBreaks(c)
  /\ UNCHANGED <<tableVars, historyVars>>

\* Processed, and the answer is lost.
AnswerLost(c) ==
  LET t == chain[c].template IN
  /\ \/ At(c, "template") /\ chain[c].creates /\ \E u \in Templates : CreateTemplate(u)
     \/ \E k \in RowIds : Removing(c, k) /\ DestroyRow(t, k)
     \/ Sending(c) /\ Item(c).id # 0 /\ UpdateRow(t, Item(c))
     \/ Sending(c) /\ Item(c).id = 0 /\ \E k \in RowIds : CreateRow(t, k, Item(c))
     \/ At(c, "cleanup") /\ DestroyTemplate(t)
  /\ SaveBreaks(c)
  /\ UNCHANGED historyVars

EditStep ==
  \/ \E q \in Library : AddExisting(q)
  \/ \E i \in DOMAIN selected : RemoveItem(i) \/ MoveItem(i) \/ SetWeight(i)
  \/ Clear

SaveStep(c) ==
  \/ SaveQuiz(c)
  \/ TemplateAnswered(c) \/ RemovalAnswered(c) \/ UpdateAnswered(c) \/ AdditionAnswered(c)
  \/ CleanupAnswered(c) \/ Refused(c) \/ Unprocessed(c) \/ AnswerLost(c)

TemplateNext ==
  \/ OpenCreate \/ LeaveForm \/ CloseTab
  \/ \E t \in Templates : OpenEdit(t)
  \/ EditStep
  \/ \E c \in Chains : SaveStep(c)

TemplateSpec == TemplateInit /\ [][TemplateNext]_templateVars
-------------------------------------------------------------------------------
TemplateTypeOK ==
  /\ form \in {"closed", "create", "edit"} /\ target \in 0..MaxTemplates
  /\ selected \in Seq(Entries) /\ original \subseteq RowIds
  /\ same \subseteq Library /\ broken \in BOOLEAN
  /\ chain \in [Chains -> Saving \cup {NoChain}]
  /\ template \in [Templates -> {"none", "there", "gone"}]
  /\ qrow \in [RowIds -> Rows \cup {Unmade, Deleted}]
  /\ finished \subseteq Templates /\ kept \subseteq RowIds /\ crossed \subseteq Templates

\* The rows a save that ends well leaves in its template are those of its list,
\* with the positions of the list, and perhaps rows that an earlier save added
\* which did not end well: whatever was added, removed and moved between the
\* saves and while they ran, unless two forms saved one template at a time.
SavedAsListed ==
  [][\A c \in Chains :
       At(c, "questions") /\ ~Working(c)'
         /\ (RemovalAnswered(c) \/ UpdateAnswered(c) \/ AdditionAnswered(c)) =>
       LET t == chain[c].template
           plan == chain[c].plan
       IN \/ t \in crossed
          \/ /\ \A i \in DOMAIN plan : \E k \in RowIds :
                  qrow'[k] = [template |-> t, question |-> plan[i].question,
                              order |-> plan[i].order]
             /\ \A k \in RowIds :
                  qrow'[k].template = t =>
                    qrow'[k].question \in Asked(plan) \/ k \notin kept']_templateVars

\* As long as no save of a form has failed, and no other form saves its template,
\* the server refuses a save for one reason only: the position an item is to take
\* is that of another item of the list.
OnlyPositionsRefused ==
  [][\A c \in Chains :
       Refused(c) /\ ~chain[c].again /\ chain[c].template \notin crossed =>
         /\ Sending(c)
         /\ \E i \in DOMAIN chain[c].plan \ {chain[c].next} :
              LET k == chain[c].plan[i].id IN
              k # 0 /\ qrow[k].template = chain[c].template
                    /\ qrow[k].order = Item(c).order]_templateVars

\* A template that could not be completed stays behind only if the answer to its
\* creation or the cleanup is lost, or the tab is closed: not when the form is
\* left, other forms are opened, or questions are refused.
LeftOver(t) ==
  /\ template[t] = "there" /\ t \notin finished
  /\ ~\E c \in Chains : Working(c) /\ chain[c].creates /\ chain[c].template = t
NothingLeftOver ==
  [][\A t \in Templates :
       LeftOver(t)' /\ ~LeftOver(t) =>
         \/ CloseTab
         \/ \E c \in Chains : AnswerLost(c) \/ (At(c, "cleanup") /\ Unprocessed(c))]_templateVars
===============================================================================
