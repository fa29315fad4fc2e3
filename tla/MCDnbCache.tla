----------------------------- MODULE MCDnbCache -----------------------------
(***************************************************************************)
(* Five files: lines of unequal length; a comment and a blank line before  *)
(* the data and no newline at the end; a blank line and a comment between  *)
(* the data, which only the serial parser reads; a line that neither can   *)
(* parse; and an empty file.  Three parser threads cut them inside lines.  *)
(***************************************************************************)
EXTENDS DnbCache

MCTexts == { <<"a", "c", "nl", "b", "c", "c", "nl", "d", "nl">>,
             <<"#", "c", "nl", "nl", "sp", "a", "nl", "b", "c", "c", "c">>,
             <<"b", "nl", "sp", "nl", "#", "nl", "a", "c", "nl">>,
             <<"a", "nl", "bad", "nl">>,
             <<>> }
=============================================================================
