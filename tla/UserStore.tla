------------------------------ MODULE UserStore ------------------------------
(***************************************************************************)
(* The user database that AuthManager reads once, when the server starts.  *)
(*                                                                         *)
(* A database is a record: its format ("sqlite", "text" or "missing") and  *)
(* its rows << username, hash >> in file order.                            *)
(***************************************************************************)
EXTENDS Naturals, Sequences

NoHash == << "" >>

\* A hash that is only the carriage return of a line that ends with CR LF.
LoneReturn == << "\r" >>

\* load() takes the carriage return at the end away.
Stripped(hash) == IF hash = LoneReturn THEN NoHash ELSE hash

\* common::sha256, which is injective on what the checks tell apart.
Digest(password) == << "sha256", password >>

NoUsers == [ u \in {} |-> NoHash ]

\* A mutant of AddRow: what is there already is kept.
AddRowOnce(users, row) ==
  [ u \in DOMAIN users \union {row[1]} |->
      IF u \in DOMAIN users THEN users[u] ELSE Stripped(row[2]) ]

\* users_[u] = h.
AddRow(users, row) ==
  [ u \in DOMAIN users \union {row[1]} |->
      IF u = row[1] THEN Stripped(row[2]) ELSE users[u] ]

\* The rows load() takes: std::getline finds no hash in a line of text that ends
\* with the colon, while a NULL hash of SQLite comes out as the empty string.  A
\* lone carriage return is a hash to std::getline.
Takes(db, row) ==
  CASE db.format = "missing" -> FALSE
    [] db.format = "text"    -> row[2] # NoHash
    [] db.format = "sqlite"  -> TRUE

\* The loop over the lines or rows.
Load(db) ==
  LET users[n \in 0..Len(db.rows)] ==
        IF n = 0 THEN NoUsers
        ELSE IF Takes(db, db.rows[n]) THEN AddRow(users[n - 1], db.rows[n])
        ELSE users[n - 1]
  IN  users[Len(db.rows)]

Authenticate(users, user, password) ==
  /\ user \in DOMAIN users
  /\ users[user] # NoHash
  /\ users[user] = Digest(password)
=============================================================================
