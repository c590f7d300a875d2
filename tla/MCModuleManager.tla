--------------------------- MODULE MCModuleManager ---------------------------
(***************************************************************************)
(* A main file, two more files and one that does not exist, with up to     *)
(* three imports between them: chains, cycles, self imports, and a file    *)
(* that is imported along two paths.  The two files are beside the main    *)
(* file or below it, may have the same name as each other or as the main   *)
(* file, and all names have an extension or none has.                      *)
(***************************************************************************)
EXTENDS ModuleManager

CONSTANTS m, a, b, gone

MCImports ==
  {<<>>} \cup {<<f>> : f \in File}
  \cup {p \in File \X File : p[1] # p[2]}

MCGraphs ==
  { i \in [File -> MCImports] :
      i[gone] = <<>> /\ Len(i[m]) + Len(i[a]) + Len(i[b]) <= 3 }

MCStems == {<<"x", "y">>, <<"x", "x">>, <<"main", "x">>}

\* The missing file may have the name of one that exists in another directory.
MCLayout(mainStem, dirA, dirB, stems, goneStem, ext) ==
  [f \in File |->
     CASE f = m -> [dir |-> "root", stem |-> mainStem, ext |-> ext]
       [] f = a -> [dir |-> dirA, stem |-> stems[1], ext |-> ext]
       [] f = b -> [dir |-> dirB, stem |-> stems[2], ext |-> ext]
       [] f = gone -> [dir |-> "root", stem |-> goneStem, ext |-> ext]]

MCLayouts ==
  { p \in { MCLayout(s, d, e, t, g, x) :
             s \in {"main", "p"}, d \in {"root", "sub"}, e \in {"root", "sub"},
             t \in MCStems, g \in {"x", "z"}, x \in BOOLEAN } :
      \A f, g \in File : p[f] = p[g] => f = g }
==============================================================================
