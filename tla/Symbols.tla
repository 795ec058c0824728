------------------------------ MODULE Symbols ------------------------------
(***************************************************************************)
(* The built-in symbols every grammar has (src/Arsenal/Parser/parser_in.c) *)
(***************************************************************************)
EOI     == "EOI"            \* end of input
ErrorT  == "error"          \* stands for what an error rule skips
DefPrec == "%PREC_ASSOC"    \* gives rules without terminals a precedence
Start   == "%Start"         \* head of the augmented rule

=============================================================================
