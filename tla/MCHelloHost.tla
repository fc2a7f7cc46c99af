----------------------------- MODULE MCHelloHost -----------------------------
(***************************************************************************)
(* The hello host with its script.                                         *)
(***************************************************************************)
EXTENDS HelloHost

(* The script without its output: what of the loop the keyboard needs.     *)
SilentScript == <<
  \hE0E1, \hE8F0, \h9509,            \* sleep
  \hB180, \h3781, \hF019,            \* in r24, 0; cpi r24, 'q'; breq to break
  \hB180, \h3581, \hF7B9,            \* in r24, 0; cpi r24, 'Q'; brne to 0
  \h9598, \hCFF5 >>                  \* break; rjmp to 0

WordsOf(script) == { script[k] : k \in DOMAIN script }

ScriptWords   == WordsOf(Script)
OneScript     == {Script}
SilentWords   == WordsOf(SilentScript)
SilentScripts == {SilentScript}
KeyPort       == {0}

BothQsAndX == {81, 113, 120}
QAndX      == {113, 120}

=============================================================================
