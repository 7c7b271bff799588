------------------------------- MODULE MCRest -------------------------------
(***************************************************************************)
(* Lists, imports, instances and templates in one run.  They share no      *)
(* variable (the rows an import or a template request inserts are Record   *)
(* in Listing, the releases of Instances are part of its environment), so  *)
(* their steps commute, and each is explored while the others have not     *)
(* begun.                                                                  *)
(***************************************************************************)
EXTENDS Listing, Import, Instances, Templates, TLC

\* Contents over two property keys.
TemplateContents == {[x |-> 1, y |-> 1], [x |-> 2, y |-> 1]}
Replacements == {[y |-> 2]}

RestInit == ListInit /\ ImportInit /\ InstInit /\ Init

\* No list has been asked for, and one of the tables is as good as another.
NoLists == ListInit /\ table = CHOOSE t \in Tables : TRUE

RestNext ==
    \/ ImportInit /\ InstInit /\ Init /\ ListNext /\ UNCHANGED <<importVars, instVars, vars>>
    \/ NoLists /\ InstInit /\ Init /\ ImportNext /\ UNCHANGED <<listVars, instVars, vars>>
    \/ NoLists /\ ImportInit /\ Init /\ InstNext /\ UNCHANGED <<listVars, importVars, vars>>
    \/ NoLists /\ ImportInit /\ InstInit /\ Next /\ UNCHANGED <<listVars, importVars, instVars>>

RestSpec == RestInit /\ [][RestNext]_<<listVars, importVars, instVars, vars>>

Symmetry == Permutations(Writers)
=============================================================================
