-------------------------------- MODULE MCMenu --------------------------------
(***************************************************************************)
(* The menu in one run: orders that are created from it while it changes,  *)
(* the editor of a product, the prices of a sales channel.  The modules    *)
(* share no state: a behaviour is one of the module named by part, the     *)
(* others rest in an initial state.                                        *)
(***************************************************************************)
EXTENDS Creation, Sequences, TLC

CONSTANTS
  b1, b2, p1, m1, m2, Editor, Text, Image, Groups, NoGroups, Empty, MaxWrites,
  MaxTasks, Source, NewSource, Price, Base, Page, Other, Nobody, MaxCalls, MaxSelects

VARIABLES
  part,
  product, stored, editor, editorLoads, writes, tasks,
  types, menus, written, call, page, loads, calls, selects

\* A group of two modifiers and a variant; a day starts half a day earlier than in UTC.
Line(variant, picks) == [product |-> p1, variant |-> variant, picks |-> picks]
MCItems == {Line(FALSE, {}), Line(TRUE, {m1})}
MCAhead == [b \in Branch |-> 1]

First == [text |-> "old", image |-> "old", groups |-> "old"]
Shown == <<"capsule", "loaf">>

\* The editors bear the names of the branches, so that one symmetry serves both.
Symmetric == Permutations(Branch) \cup Permutations(Request)

Edited == INSTANCE ProductEditor WITH
  MaxEdits <- MaxWrites, edits <- writes, loads <- editorLoads
Sources == INSTANCE Channels WITH Order <- Shown

creationVars == <<menu, settings, editing, edits, clock, request>>
editorVars == <<product, stored, editor, editorLoads, writes, tasks>>
channelsVars == <<types, menus, written, call, page, loads, calls, selects>>
suiteVars == <<part, creationVars, editorVars, channelsVars>>

SuiteInit ==
  /\ part \in {"creation", "editor", "channels"}
  /\ Init /\ (part # "creation" => settings = {})
  /\ Edited!Init
  /\ Sources!Init /\ (part # "channels" => page.selected = "direct")

SuiteNext ==
  \/ /\ part = "creation" /\ Next
     /\ UNCHANGED <<part, editorVars, channelsVars>>
  \/ /\ part = "editor" /\ Edited!Next
     /\ UNCHANGED <<part, creationVars, channelsVars>>
  \/ /\ part = "channels" /\ Sources!Next
     /\ UNCHANGED <<part, creationVars, editorVars>>

SuiteSpec == SuiteInit /\ [][SuiteNext]_suiteVars

-----------------------------------------------------------------------------
\* No two orders of a branch and day get one number, the numbers of a scope have no
\* gaps, and an order keeps the rows it was sold with (orderNumbering.ts, orders.ts).
NumbersStand == part = "creation" => NumbersRunOn /\ NeverCollides /\ SoldRowsRemain

\* A form without changes shows values that were stored (ProductEditorPage.tsx).
CleanWasStored == Edited!CleanWasStored

\* A new source starts with a whole menu of another, as it was at one time
\* (orderSources.ts).
CopiedWhole == Sources!CopiedWhole
=============================================================================
