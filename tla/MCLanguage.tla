----------------------------- MODULE MCLanguage -----------------------------
EXTENDS EvaluatorProps, IALProps, IntentFileProps, TypeCheckerProps, LibraryProps, ModulesProps

MCNumerals == [x \in {"42", "200"} |-> IF x = "42" THEN 42 ELSE 200]
MCUpperCase == "a" :> "A"
MCFigures == "1" :> 1
MCCodes == (" " :> <<"%20">>) @@ ("%" :> <<"%25">>) @@ ("&" :> <<"%26">>) @@ ("+" :> <<"%2B">>)
           @@ ("=" :> <<"%3D">>) @@ ("w" :> <<"%C3", "%A9">>)
MCJsonTexts == <<"a">> :> <<"Null">>

Init ==
    /\ shape \in EvaluatorStarts \cup IALStarts \cup IntentFileStarts \cup TypedStarts \cup LibraryStarts
                 \cup ModulesStarts
    /\ NothingRead
Next ==
    \/ /\ EvaluatorGrows \/ IALGrows \/ TypedGrows \/ LibraryGrows \/ ModulesGrow
       /\ UNCHANGED <<intent, glossary>>
    \/ IntentFileGrows
Spec == Init /\ [][Next]_<<shape, intent, glossary>>
=============================================================================
