------------------------------ MODULE FrontEnd ------------------------------
(***************************************************************************)
(* Parsing followed by compilation (gotpl/template.py __init__): what the  *)
(* parser accepts, the compiler lowers to programs the virtual machine can *)
(* run.                                                                    *)
(***************************************************************************)
EXTENDS Parser, Compiler

\* What the parser builds is in the domain of the compiler: every item of the
\* source opens one level of constructs at most.
ASSUME FrontEndAssumption ==
    /\ MaxItems <= MaxLevels
    /\ Pipelines \subseteq CompiledPipelines
    /\ DefinitionNames \subseteq Strings

Result == CompileTemplate(Top.nodes, definitions)

\* Code compiled from an accepted template passes the stack verification that
\* TemplateVM assumes: no jump is left unpatched or leaves the program, and no
\* path reaches a POP_SCOPE, EXIT_WITH, NEXT_ITERATION or BREAK_RANGE without
\* its operand (compiler.py patch_branch, patch_jump, patch_range).
CompiledVerified ==
    status = "accepted" /\ ~Result.failed =>
        \A code \in Result.codes : Verified(code, StackMap(code))
============================================================================
