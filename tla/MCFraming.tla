------------------------------ MODULE MCFraming ------------------------------
(* A small instance of Framing for TLC: one message of every type, and strings *)
(* of no, one, almost too many and too many characters. *)
EXTENDS Framing

Text == << 2, 1 >>
Long == << 0, 2, 1, 0, 2 >>

Say(type, fields) == [type |-> type, fields |-> fields]

OneEntry == << << << 2 >>, TRUE, 0, 1 >> >>
TwoEntries == << << << >>, FALSE, 3, 0 >>, << Text, TRUE, 0, 2 >> >>

MCMessages ==
  { Say("PING", << >>), Say("PONG", << >>),
    Say("AUTH_RESPONSE", << TRUE, 3, Text >>),
    Say("LIST_RESPONSE", << << >> >>), Say("LIST_RESPONSE", << OneEntry >>),
    Say("LIST_RESPONSE", << TwoEntries >>),
    Say("UPLOAD_BEGIN", << 1, 2, << >>, << 2 >>, Text >>),
    Say("UPLOAD_CHUNK", << 1, 0, Text >>), Say("UPLOAD_END", << 1 >>),
    Say("DOWNLOAD_BEGIN", << 2, 1, << 1 >>, Text >>),
    Say("DOWNLOAD_CHUNK", << 2, 0, << 1 >> >>), Say("DOWNLOAD_END", << 2 >>),
    Say("DELETE_RESPONSE", << FALSE, << 1 >> >>),
    Say("RENAME_RESPONSE", << TRUE, << >> >>),
    Say("MKDIR_RESPONSE", << FALSE, Text >>),
    Say("RMDIR_RESPONSE", << TRUE, << 2 >> >>) }
    \union
  { Say(type, << s >>) :
      type \in {"ERROR", "SUCCESS", "LIST"}, s \in { << >>, Text, Long } }
    \union
  { Say(type, << << 1 >> >>) :
      type \in {"DOWNLOAD_REQUEST", "DELETE_REQUEST", "MKDIR_REQUEST",
                "RMDIR_REQUEST"} }
    \union
  { Say("AUTH_REQUEST", << user, password >>) : user, password \in {Text, Long} }
    \union
  { Say("RENAME_REQUEST", << from, to >>) : from, to \in {<< 1 >>, Long} }
=============================================================================
