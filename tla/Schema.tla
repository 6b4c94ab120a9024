------------------------------- MODULE Schema -------------------------------
(***************************************************************************)
(* Columns, and what a reader may assume of a frame: the vocabulary of     *)
(* catalog.py that every other module speaks.  A column list is a set of   *)
(* column records; the catalog's primary key allows one column per name,   *)
(* and no property here depends on the order of the columns.               *)
(***************************************************************************)
CONSTANTS
  Names,     \* column names
  Types,     \* column types, in the catalog's vocabulary
  Castable   \* the pairs <<from, to>> that pandas' astype converts (external)

ASSUME CastableAssumption == Castable \subseteq Types \X Types

Column ==
  [name : Names, type : Types, nullable : BOOLEAN, primary_key : BOOLEAN]

NamesOf(columns) == {c.name : c \in columns}

PrimaryKeys(columns) == NamesOf({c \in columns : c.primary_key})

(***************************************************************************)
(* Schema.enforce.  In the columns of a frame or of a stored table,        *)
(* nullable says that the column does hold a null.  A frame that fails any *)
(* of the three tests raises SchemaDrift; one that passes is projected     *)
(* onto the promised names and cast to the promised types.                 *)
(***************************************************************************)
Satisfies(found, promised) ==
  \A c \in promised : \E d \in found :
     /\ d.name = c.name
     /\ <<d.type, c.type>> \in Castable
     /\ d.nullable => c.nullable

Enforced(found, promised) ==
  {[c EXCEPT !.nullable =
       \E d \in found : d.name = c.name /\ d.nullable] : c \in promised}

\* What the catalog records of a table made by CREATE TABLE AS SELECT: every
\* column nullable, none a primary key, whatever the frame was.
AsRegistered(columns) ==
  {[c EXCEPT !.nullable = TRUE, !.primary_key = FALSE] : c \in columns}
=============================================================================
