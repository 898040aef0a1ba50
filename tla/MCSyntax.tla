------------------------------ MODULE MCSyntax ------------------------------
EXTENDS SyntaxProps, TemplateProps

MCDigits == [c \in {"0", "1"} |-> IF c = "0" THEN 0 ELSE 1]
MCUpper == [c \in {"a"} |-> "A"]

Init == shape \in SyntaxStarts \cup LexerStarts \cup TemplateStarts
Next == SyntaxGrows \/ LexerGrows \/ TemplateGrows
Spec == Init /\ [][Next]_shape
=============================================================================
