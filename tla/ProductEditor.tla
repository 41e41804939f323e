--------------------------- MODULE ProductEditor ---------------------------
(***************************************************************************)
(* The editor of a product (apps/admin/src/pages/menu/ProductEditor.tsx,   *)
(* ImageUpload.tsx) over the routes of the menu that it calls              *)
(* (apps/api/src/modules/menu.ts).                                         *)
(*                                                                         *)
(*   load     two reads of the server, an answer that fills the form       *)
(*   save     PATCH of the fields, then PUT of the groups of modifiers: a  *)
(*            delete and an insert                                         *)
(*   at once  the image, written before it is shown in the form; sizes and *)
(*            branches, after which the product is loaded again            *)
(*                                                                         *)
(* A product is a text, an image and its groups; sizes and branches are    *)
(* left out but for the load that follows.  Each editor is open from the   *)
(* start; one that is opened again is another one.  MaxEdits and MaxTasks  *)
(* bound what is typed and what is started.                                *)
(***************************************************************************)
EXTENDS Integers, Sequences

CONSTANTS Editor, Text, Image, Groups, First, NoGroups, Empty, MaxEdits, MaxTasks

VARIABLES
  product,   \* text, image and groups, as stored
  stored,    \* the values each of them ever had
  editor,    \* open, form, initial, saving, sent, uploading
  loads,     \* the loads of each editor
  edits, tasks

vars == <<product, stored, editor, loads, edits, tasks>>

Field == {"text", "image", "groups"}
NewLoad == [at |-> "sent", product |-> Empty]

Init ==
  /\ product = First
  /\ stored = [f \in Field |-> {First[f]}]
  /\ editor = [e \in Editor |-> [open |-> TRUE, form |-> Empty, initial |-> Empty, saving |-> "no",
                                 sent |-> Empty, uploading |-> "no", image |-> First.image]]
  /\ loads = [e \in Editor |-> << NewLoad >>]
  /\ edits = 0
  /\ tasks = 0

Write(change) ==
  /\ product' = change
  /\ stored' = [f \in Field |-> stored[f] \cup {change[f]}]

Task == tasks < MaxTasks /\ tasks' = tasks + 1

Filled(e) == editor[e].open /\ editor[e].form # Empty
Dirty(e) == editor[e].form # editor[e].initial

-----------------------------------------------------------------------------
(* Loads.                                                                  *)

\* GET reads the product, and its groups in a later query.
ReadProduct(e, i) ==
  /\ loads[e][i].at = "sent"
  /\ loads' = [loads EXCEPT ![e][i] = [at |-> "read", product |-> product]]
  /\ UNCHANGED <<product, stored, editor, edits, tasks>>

ReadGroups(e, i) ==
  /\ loads[e][i].at = "read"
  /\ loads' = [loads EXCEPT ![e][i].at = "answered", ![e][i].product.groups = product.groups]
  /\ UNCHANGED <<product, stored, editor, edits, tasks>>

\* An answer fills the form and takes it for the saved state, whatever was typed.
LoadEnds(e, i) ==
  /\ \/ /\ loads[e][i].at = "answered"
        /\ editor' = [editor EXCEPT ![e].form = loads[e][i].product, ![e].initial = loads[e][i].product]
     \/ UNCHANGED editor
  /\ loads' = [loads EXCEPT ![e] = SubSeq(@, 1, i - 1) \o SubSeq(@, i + 1, Len(@))]
  /\ UNCHANGED <<product, stored, edits, tasks>>

-----------------------------------------------------------------------------
(* What the admin does.                                                    *)

Typed(e, field, value) ==
  /\ Filled(e)
  /\ edits < MaxEdits
  /\ edits' = edits + 1
  /\ editor' = [editor EXCEPT ![e].form[field] = value]
  /\ UNCHANGED <<product, stored, loads, tasks>>

Type(e) ==
  \/ \E text \in Text : Typed(e, "text", text)
  \/ \E image \in Image : Typed(e, "image", image)
  \/ \E groups \in Groups : Typed(e, "groups", groups)

\* A size or a branch is changed at once, and the product loaded again.
ChangeSizes(e) ==
  /\ Filled(e)
  /\ Task
  /\ loads' = [loads EXCEPT ![e] = Append(@, NewLoad)]
  /\ UNCHANGED <<product, stored, editor, edits>>

Save(e) ==
  /\ Filled(e)
  /\ editor[e].saving = "no"
  /\ Task
  /\ editor' = [editor EXCEPT ![e].saving = "patch", ![e].sent = editor[e].form]
  /\ UNCHANGED <<product, stored, loads, edits>>

Upload(e, image) ==
  /\ Filled(e)
  /\ editor[e].uploading = "no"
  /\ Task
  /\ editor' = [editor EXCEPT ![e].uploading = "sent", ![e].image = image]
  /\ UNCHANGED <<product, stored, loads, edits>>

\* Closing asks for a confirmation when something was typed.
Close(e) ==
  /\ editor[e].open
  /\ editor' = [editor EXCEPT ![e].open = FALSE]
  /\ UNCHANGED <<product, stored, loads, edits, tasks>>

-----------------------------------------------------------------------------
(* Saving and uploading.                                                   *)

Saving(e, from, to) ==
  /\ editor[e].saving = from
  /\ editor' = [editor EXCEPT ![e].saving = to]
  /\ UNCHANGED <<loads, edits, tasks>>

Patch(e) ==
  /\ Saving(e, "patch", "put")
  /\ Write([editor[e].sent EXCEPT !.groups = product.groups])

DeleteGroups(e) ==
  /\ Saving(e, "put", "insert")
  /\ Write([product EXCEPT !.groups = NoGroups])

InsertGroups(e) ==
  /\ Saving(e, "insert", "saved")
  /\ Write([product EXCEPT !.groups = editor[e].sent.groups])

\* Bug: what stands in the form when the answer comes is taken for saved.
SavedFormNow(e) == editor[e].form

SavedForm(e) == editor[e].sent

SaveAnswered(e) ==
  /\ editor[e].saving = "saved"
  /\ editor' = [editor EXCEPT ![e].saving = "no", ![e].initial = SavedForm(e)]
  /\ UNCHANGED <<product, stored, loads, edits, tasks>>

\* A request fails, or its answer is lost; the steps done before it stay done.
SaveFails(e) ==
  /\ editor[e].saving # "no"
  /\ editor' = [editor EXCEPT ![e].saving = "no"]
  /\ UNCHANGED <<product, stored, loads, edits, tasks>>

StoreImage(e) ==
  /\ editor[e].uploading = "sent"
  /\ editor' = [editor EXCEPT ![e].uploading = "stored"]
  /\ Write([product EXCEPT !.image = editor[e].image])
  /\ UNCHANGED <<loads, edits, tasks>>

UploadEnds(e) ==
  /\ editor[e].uploading # "no"
  /\ \/ /\ editor[e].uploading = "stored"
        /\ editor' = [editor EXCEPT ![e].uploading = "no", ![e].form.image = editor[e].image]
     \/ editor' = [editor EXCEPT ![e].uploading = "no"]
  /\ UNCHANGED <<product, stored, loads, edits, tasks>>

Next ==
  \E e \in Editor :
    \/ \E i \in DOMAIN loads[e] : ReadProduct(e, i) \/ ReadGroups(e, i) \/ LoadEnds(e, i)
    \/ Type(e) \/ ChangeSizes(e) \/ Save(e) \/ Close(e)
    \/ \E image \in Image : Upload(e, image)
    \/ Patch(e) \/ DeleteGroups(e) \/ InsertGroups(e) \/ SaveAnswered(e) \/ SaveFails(e)
    \/ StoreImage(e) \/ UploadEnds(e)

Spec == Init /\ [][Next]_vars

-----------------------------------------------------------------------------
(* Properties.                                                             *)

\* A form without the mark of unsaved changes shows what was stored at some
\* time, field by field, with saves, uploads and loads of two editors under way
\* (ProductEditor.tsx:142, `dirty').
CleanWasStored ==
  \A e \in Editor : Filled(e) /\ ~Dirty(e) => \A f \in Field : editor[e].form[f] \in stored[f]

\* ProductEditor.tsx:26 "dirty tracking + a warning when leaving + a
\* confirmation when closing" (translated): what was typed and not saved is
\* changed by typing, or by an image that was uploaded, and by nothing else.
NoEditLost ==
  [][\A e \in Editor : Filled(e) /\ Dirty(e) /\ editor'[e].form # editor[e].form =>
       edits' # edits \/ editor'[e].form = [editor[e].form EXCEPT !.image = editor[e].image]]_vars

\* menu.ts:493 "one whole product for the editor: data, sizes, and links to
\* modifiers" (translated): no form is filled with the groups of a save that
\* has deleted the old ones and not inserted the new ones.
LoadedWhole == \A e \in Editor : Filled(e) => editor[e].form.groups # NoGroups

\* ProductEditor.tsx:378 "you have changes that were not saved; close and
\* ignore them?" (translated): where nobody saved, closing leaves the product
\* as it was.
IgnoredOnClose ==
  (\A e \in Editor : ~editor[e].open /\ editor[e].sent = Empty /\ editor[e].uploading = "no") => product = First
=============================================================================
