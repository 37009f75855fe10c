------------------------------ MODULE MCParser ------------------------------
(***************************************************************************)
(* Parser and compiler for TLC: one block, two names that loops, variables *)
(* and arguments share, a file that is included by another.                *)
(***************************************************************************)
EXTENDS Parser

MCArgLists == { <<>>, <<"i", "j">> }
(* A break in an included file ends the run; it disturbs no property. *)
Ending == {"break in include"}
SumConditions == {"sum condition"}

(* The arguments of a block that is closed are cleared before they are     *)
(* read again.                                                             *)
ParserView ==
  << at, oCompiler, mBlockArgSizes, expr, eResultOperator,
     [p \in DOMAIN parsers |->
        IF parsers[p].bInBlock THEN parsers[p] ELSE [parsers[p] EXCEPT !.mCurrentBlock = <<>>]] >>
=============================================================================
