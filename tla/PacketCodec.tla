----------------------------- MODULE PacketCodec -----------------------------
(***************************************************************************)
(* What PacketBuilder and DirectorySerializer make of a message and what   *)
(* the parsers make of a payload.                                          *)
(*                                                                         *)
(* A payload is a sequence of cells, which are numbers.  An integer or a   *)
(* flag of fixed width is one cell; a string is one cell with its length,  *)
(* as the 16 bits of the length field hold it, and one cell per character. *)
(* A length and a character are cells of the same kind, so what a parser   *)
(* reads when it is out of step is a number, as it is in the code.         *)
(***************************************************************************)
EXTENDS Naturals, SequencesExt

CONSTANT StringLimit  \* 2^16, scaled down: lengths are taken modulo this

ASSUME StringLimitAssumption == StringLimit \in Nat \ {0}

(* The fields of each type of packet, in the order in which they are written. *)

LoginLayout ==
  [ PING          |-> << >>,
    PONG          |-> << >>,
    AUTH_REQUEST  |-> << "string", "string" >>,
    AUTH_RESPONSE |-> << "flag", "int", "string" >> ]

TextLayout ==
  [ ERROR   |-> << "string" >>,
    SUCCESS |-> << "string" >>,
    LIST    |-> << "string" >> ]

EntriesLayout == [ LIST_RESPONSE |-> << "entries" >> ]

UploadLayout ==
  [ UPLOAD_BEGIN |-> << "int", "int", "string", "string", "string" >>,
    UPLOAD_CHUNK |-> << "int", "int", "data" >>,
    UPLOAD_END   |-> << "int" >> ]

DownloadLayout ==
  [ DOWNLOAD_REQUEST |-> << "string" >>,
    DOWNLOAD_BEGIN   |-> << "int", "int", "string", "string" >>,
    DOWNLOAD_CHUNK   |-> << "int", "int", "data" >>,
    DOWNLOAD_END     |-> << "int" >> ]

ChangeLayout ==
  [ DELETE_REQUEST  |-> << "string" >>,
    DELETE_RESPONSE |-> << "flag", "string" >>,
    RENAME_REQUEST  |-> << "string", "string" >>,
    RENAME_RESPONSE |-> << "flag", "string" >>,
    MKDIR_REQUEST   |-> << "string" >>,
    MKDIR_RESPONSE  |-> << "flag", "string" >>,
    RMDIR_REQUEST   |-> << "string" >>,
    RMDIR_RESPONSE  |-> << "flag", "string" >> ]

\* All of them together.
Layout ==
  [ type \in DOMAIN LoginLayout \union DOMAIN TextLayout \union DOMAIN EntriesLayout
               \union DOMAIN UploadLayout \union DOMAIN DownloadLayout \union DOMAIN ChangeLayout |->
      CASE type \in DOMAIN LoginLayout    -> LoginLayout[type]
        [] type \in DOMAIN TextLayout     -> TextLayout[type]
        [] type \in DOMAIN EntriesLayout  -> EntriesLayout[type]
        [] type \in DOMAIN UploadLayout   -> UploadLayout[type]
        [] type \in DOMAIN DownloadLayout -> DownloadLayout[type]
        [] type \in DOMAIN ChangeLayout   -> ChangeLayout[type] ]

\* What the type of a field in the structs holds.
IsValue(kind, value) ==
  CASE kind = "int"     -> value \in Nat
    [] kind = "flag"    -> value \in BOOLEAN
    [] kind = "string"  -> value \in Seq(Nat)
    [] kind = "data"    -> value \in Seq(Nat)
    [] kind = "entries" -> value \in Seq(Seq(Nat) \X BOOLEAN \X Nat \X Nat)

\* A message has the fields of its type.
IsMessage(message) ==
  /\ message.type \in DOMAIN Layout
  /\ LET kinds == Layout[message.type] IN
     /\ message.fields = [ k \in 1..Len(kinds) |-> message.fields[k] ]
     /\ \A k \in 1..Len(kinds) : IsValue(kinds[k], message.fields[k])

\* The length of a string is cast to 16 bits and its characters are not cut, so
\* it is read back only if it is short.
Short(kind, value) ==
  CASE kind = "string"  -> Len(value) < StringLimit
    [] kind = "entries" -> \A i \in 1..Len(value) : Len(value[i][1]) < StringLimit
    [] OTHER            -> TRUE

-----------------------------------------------------------------------------
(* Building a payload *)

Bit(flag) == IF flag THEN 1 ELSE 0

\* A mutant of EncodeString: the terminating zero is counted.
EncodeWithZero(s) == << (Len(s) + 1) % StringLimit >> \o s

\* The length is cast to 16 bits, the characters are copied whole.
EncodeString(s) == << Len(s) % StringLimit >> \o s

\* DirectorySerializer::serialize of entries << name, is_directory, size, mtime >>.
EncodeEntries(entries) ==
  << Len(entries) >> \o
  FlattenSeq([ i \in 1..Len(entries) |->
    EncodeString(entries[i][1])
      \o << Bit(entries[i][2]), entries[i][3], entries[i][4] >> ])

Encode(kind, value) ==
  CASE kind = "int"     -> << value >>
    [] kind = "flag"    -> << Bit(value) >>
    [] kind = "string"  -> EncodeString(value)
    [] kind = "data"    -> << Len(value) >> \o value
    [] kind = "entries" -> EncodeEntries(value)

Build(message) ==
  LET kinds == Layout[message.type] IN
  [ type    |-> message.type,
    payload |-> FlattenSeq([ i \in 1..Len(kinds) |->
                               Encode(kinds[i], message.fields[i]) ]) ]

-----------------------------------------------------------------------------
(* Parsing a payload.  A cursor holds what was read so far, what is left of *)
(* the payload, and whether everything has fitted.                          *)

Start(payload) == [ok |-> TRUE, left |-> payload, fields |-> << >>]

Fail(cursor) == [cursor EXCEPT !.ok = FALSE]

\* The field is the first n cells that are left, and its value is given.
Take(cursor, n, value) ==
  [ cursor EXCEPT !.left = SubSeq(@, n + 1, Len(@)),
                  !.fields = Append(@, value) ]

Fits(cursor, n) == cursor.ok /\ Len(cursor.left) >= n

ReadInt(cursor) ==
  IF Fits(cursor, 1) THEN Take(cursor, 1, Head(cursor.left)) ELSE Fail(cursor)

ReadFlag(cursor) ==
  IF Fits(cursor, 1) THEN Take(cursor, 1, Head(cursor.left) = 1)
                     ELSE Fail(cursor)

\* The length must be there, and as many characters as it says.
ReadString(cursor) ==
  IF Fits(cursor, 1) /\ Fits(cursor, 1 + Head(cursor.left))
  THEN LET last == 1 + Head(cursor.left)
       IN  Take(cursor, last, SubSeq(cursor.left, 2, last))
  ELSE Fail(cursor)

ReadData(cursor) == ReadString(cursor)

\* One round of the loop of DirectorySerializer::deserialize: a name, a flag and
\* two integers become one entry.
ReadEntry(cursor) ==
  LET parts == ReadInt(ReadInt(ReadFlag(ReadString(
                 [cursor EXCEPT !.fields = << >>]))))
  IN  [parts EXCEPT !.fields = Append(cursor.fields, parts.fields)]

\* The loop over the entries, of which there are as many as the count says.
AllEntries(cursor, count) ==
  LET after[n \in 0..count] == IF n = 0 THEN cursor ELSE ReadEntry(after[n - 1])
  IN  after[count]

\* The number of entries, then as many entries.
ReadEntries(cursor) ==
  IF Fits(cursor, 1)
  THEN LET inner == AllEntries(Start(Tail(cursor.left)), Head(cursor.left))
       IN  [ inner EXCEPT !.fields = Append(cursor.fields, inner.fields) ]
  ELSE Fail(cursor)

Read(cursor, kind) ==
  CASE kind = "int"     -> ReadInt(cursor)
    [] kind = "flag"    -> ReadFlag(cursor)
    [] kind = "string"  -> ReadString(cursor)
    [] kind = "data"    -> ReadData(cursor)
    [] kind = "entries" -> ReadEntries(cursor)

\* The parser of a type of packet: its fields one after the other.  What is left
\* over is not looked at.
Parse(packet) ==
  LET kinds == Layout[packet.type]
      after[n \in 0..Len(kinds)] ==
        IF n = 0 THEN Start(packet.payload) ELSE Read(after[n - 1], kinds[n])
  IN  after[Len(kinds)]
=============================================================================
