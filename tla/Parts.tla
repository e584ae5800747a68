-------------------------------- MODULE Parts ---------------------------------
(***************************************************************************)
(* The parts of the system that keep their state to themselves: drivers,   *)
(* open files, contexts, symbol numbers, printf, the heap and the count of *)
(* it, the text of the working directory and fixed answers.  As in         *)
(* Drivers, one of them is chosen and acts.                                *)
(***************************************************************************)
EXTENDS Drivers, OpenFiles, Contexts, SymbolCodes, Printf, Malloc, Paths

VARIABLE part

partsVars == <<vars, openVars, contextVars, codeVars, printVars, heapVars, mallocVars, pathVars, answerVars, part>>

PartsInit ==
    /\ part \in {"drivers", "files", "contexts", "codes", "printf", "heap", "malloc", "paths", "answers"}
    /\ Init /\ (part = "drivers" \/ device = "display")
    /\ OpenFilesInit /\ ContextsInit /\ SymbolCodesInit /\ PrintfInit
    /\ HeapInit /\ MallocInit /\ PathsInit /\ AnswersInit

PartsNext ==
    /\ UNCHANGED part
    /\ \/ /\ part = "drivers" /\ Next
          /\ UNCHANGED <<openVars, contextVars, codeVars, printVars, heapVars, mallocVars, pathVars, answerVars>>
       \/ /\ part = "files" /\ OpenFilesNext
          /\ UNCHANGED <<vars, contextVars, codeVars, printVars, heapVars, mallocVars, pathVars, answerVars>>
       \/ /\ part = "contexts" /\ ContextsNext
          /\ UNCHANGED <<vars, openVars, codeVars, printVars, heapVars, mallocVars, pathVars, answerVars>>
       \/ /\ part = "codes" /\ SymbolCodesNext
          /\ UNCHANGED <<vars, openVars, contextVars, printVars, heapVars, mallocVars, pathVars, answerVars>>
       \/ /\ part = "printf" /\ PrintfNext
          /\ UNCHANGED <<vars, openVars, contextVars, codeVars, heapVars, mallocVars, pathVars, answerVars>>
       \/ /\ part = "heap" /\ HeapNext
          /\ UNCHANGED <<vars, openVars, contextVars, codeVars, printVars, mallocVars, pathVars, answerVars>>
       \/ /\ part = "malloc" /\ MallocNext
          /\ UNCHANGED <<vars, openVars, contextVars, codeVars, printVars, heapVars, pathVars, answerVars>>
       \/ /\ part = "paths" /\ PathsNext
          /\ UNCHANGED <<vars, openVars, contextVars, codeVars, printVars, heapVars, mallocVars, answerVars>>
       \/ /\ part = "answers" /\ AnswersNext
          /\ UNCHANGED <<vars, openVars, contextVars, codeVars, printVars, heapVars, mallocVars, pathVars>>

PartsSpec == PartsInit /\ [][PartsNext]_partsVars
=============================================================================
