--------------------------- MODULE PbxConfig_proofs ---------------------------
(***************************************************************************)
(* Proofs about PbxConfig for any number of rows, administrators and       *)
(* applies.                                                                *)
(***************************************************************************)
EXTENDS PbxConfig, TLAPS

Tables == [Thing -> ConfigRow]

(* What edits leave behind.                                                *)

LEMMA EditType ==
  ASSUME NEW d \in Admin, edit \in [Admin -> Edit \cup {NoEdit}], edit[d] # NoEdit
  PROVE  /\ edit[d].order \in Order /\ edit[d].left \in SUBSET Thing
         /\ edit[d].read \in ConfigRow
         /\ edit[d].order.thing \in Thing
         /\ edit[d].order.to \subseteq Targets(edit[d].order.thing)
         /\ edit[d].order.op \in {"save", "add", "drop", "retire"}
BY DEF Edit, Order

\* What a PATCH makes of a row, half by half.
LEMMA MergedType ==
  ASSUME NEW row \in ConfigRow, NEW e \in Order
  PROVE  /\ Merged(row, e) \in ConfigRow
         /\ Merged(row, e).to \subseteq row.to \cup e.to
         /\ Merged(row, e).type = IF "type" \in e.names THEN e.type ELSE row.type
         /\ Value(Merged(row, e)) = IF "value" \in e.names THEN Value(e) ELSE Value(row)
         /\ Merged(row, e).to \cap Trunk =
              (IF "trunk" \in e.names THEN e.to ELSE row.to) \cap Trunk
<1> DEFINE value == IF "value" \in e.names THEN Value(e) ELSE Value(row)
           trunk == (IF "trunk" \in e.names THEN e.to ELSE row.to) \cap Trunk
           type  == IF "type" \in e.names THEN e.type ELSE row.type
           on    == IF "isActive" \in e.names THEN e.isActive ELSE row.active
<1>1. /\ e.to \subseteq Thing /\ e.type \in DestinationType /\ e.isActive \in BOOLEAN
      /\ row.to \subseteq Thing /\ row.type \in DestinationType /\ row.active \in BOOLEAN
  BY DEF Order, ConfigRow
<1>2. /\ value \subseteq row.to \cup e.to /\ trunk \subseteq row.to \cup e.to
      /\ value \cap Trunk = {} /\ trunk \subseteq Trunk
  BY DEF Value
<1>3. type \in DestinationType /\ on \in BOOLEAN
  BY <1>1
<1>4. Merged(row, e) = [active |-> on, type |-> type, to |-> value \cup trunk]
  BY DEF Merged
<1> HIDE DEF value, trunk, type, on
<1>5. /\ Merged(row, e).to = value \cup trunk /\ Merged(row, e).type = type
      /\ Merged(row, e) \in ConfigRow
  BY <1>1, <1>2, <1>3, <1>4 DEF ConfigRow
<1>6. Value(Merged(row, e)) = value /\ Merged(row, e).to \cap Trunk = trunk
  BY <1>2, <1>5 DEF Value
<1>7. Merged(row, e).to \subseteq row.to \cup e.to
  BY <1>2, <1>5
<1> QED
  BY <1>5, <1>6, <1>7 DEF value, trunk, type

LEMMA WrittenType ==
  ASSUME NEW row \in ConfigRow, NEW e \in Order
  PROVE  /\ Written(row, e) \in ConfigRow
         /\ Written(row, e).to \subseteq row.to \cup e.to
         /\ e.op \in {"drop", "retire"} => Written(row, e).to \subseteq row.to
         /\ e.op = "retire" => /\ Written(row, e).to = row.to
                               /\ Written(row, e).type = row.type
         /\ e.op = "save" => Written(row, e) = Merged(row, e)
<1>1. /\ e.to \subseteq Thing /\ e.op \in {"save", "add", "drop", "retire"}
      /\ row.to \subseteq Thing /\ row.active \in BOOLEAN /\ row.type \in DestinationType
  BY DEF Order, ConfigRow
<1>2. CASE e.op = "save"
  BY <1>1, <1>2, MergedType DEF Written
<1>4. CASE e.op = "retire"
  BY <1>1, <1>4 DEF Written, ConfigRow
<1>5. CASE e.op = "add"
  BY <1>1, <1>5 DEF Written, ConfigRow
<1>6. CASE e.op = "drop"
  BY <1>1, <1>6 DEF Written, ConfigRow
<1> QED
  BY <1>1, <1>2, <1>4, <1>5, <1>6

\* A thing that is active, or was.
Known(t) == things[t].active \/ t \in retired

\* What an edit that has come so far has found to be there.
Promised(w) ==
  LET e == w.order
      x == e.thing
      row == Merged(w.read, e)
  IN /\ x \in (Ivr \cup Group) \ Route /\ e.op \in {"save", "add"} => \A t \in e.to \ w.left : Known(t)
     /\ x \in Route /\ e.op = "save" =>
          /\ Destined(row)
          /\ \A t \in Destinations(x, row) \ w.left : Known(t)
          /\ "trunk" \in e.names => \A t \in (e.to \cap Trunk) \ w.left : Known(t)

EditsTyped ==
  /\ things \in Tables
  /\ edit \in [Admin -> Edit \cup {NoEdit}]
  /\ mismatched \subseteq Thing
  /\ \A x \in Thing : things[x].to \subseteq Targets(x)

\* What the rows of a thing may lead to.
Aimed(x) ==
  /\ x \in Pointing \ mismatched => \A t \in Destinations(x, things[x]) : Known(t)
  /\ x \in Route \ mismatched => Destined(things[x])
  /\ x \in Route => \A t \in things[x].to \cap Trunk : Known(t)

EditsInv ==
  /\ EditsTyped
  /\ \A x \in Thing : Aimed(x)
  /\ \A d \in Admin : edit[d] # NoEdit => Promised(edit[d])

\* An edit that is not being done leaves all of it alone.
LEMMA EditsStutter ==
  ASSUME EditsInv, UNCHANGED <<things, retired, mismatched>>,
         edit' \in [Admin -> Edit \cup {NoEdit}],
         \A d \in Admin : edit'[d] \in {edit[d], NoEdit}
  PROVE  EditsInv'
<1>1. \A t : Known(t)' <=> Known(t)
  BY DEF Known
<1>2. \A x \in Thing : Aimed(x)'
  BY <1>1 DEF EditsInv, Aimed, Destinations, Destined, Value
<1>3. ASSUME NEW d \in Admin, edit'[d] # NoEdit PROVE Promised(edit[d])'
  <2>1. edit'[d] = edit[d] /\ Promised(edit[d])
    BY <1>3 DEF EditsInv
  <2> QED
    BY <1>1, <2>1 DEF Promised, Destinations, Destined, Value, Merged
<1>4. EditsTyped'
  BY DEF EditsInv, EditsTyped, Tables
<1> QED
  BY <1>2, <1>3, <1>4 DEF EditsInv

\* One edit moves on, and no row changes.
LEMMA OneEditMoves ==
  ASSUME EditsInv, UNCHANGED <<things, retired, mismatched>>, NEW d \in Admin,
         NEW w \in Edit, edit' = [edit EXCEPT ![d] = w], Promised(w)
  PROVE  EditsInv'
<1>1. /\ edit' \in [Admin -> Edit \cup {NoEdit}] /\ edit'[d] = w
      /\ \A o \in Admin : o # d => edit'[o] = edit[o]
  BY DEF EditsInv, EditsTyped
<1>2. \A t : Known(t)' <=> Known(t)
  BY DEF Known
<1>3. \A x \in Thing : Aimed(x)'
  BY <1>2 DEF EditsInv, Aimed, Destinations, Destined, Value
<1>4. ASSUME NEW o \in Admin, edit'[o] # NoEdit PROVE Promised(edit[o])'
  <2>1. Promised(edit'[o])
    BY <1>1, <1>4 DEF EditsInv
  <2> QED
    BY <1>2, <2>1 DEF Promised, Destinations, Destined, Value, Merged
<1>5. EditsTyped'
  BY <1>1 DEF EditsInv, EditsTyped, Tables
<1> QED
  BY <1>3, <1>4, <1>5 DEF EditsInv

LEMMA BeginEditStep ==
  ASSUME EditsInv, NEW d \in Admin, NEW e \in Order, BeginEdit(d, e)
  PROVE  EditsInv'
<1> DEFINE x == e.thing
           w == [order |-> e, left |-> Validated(e), read |-> things[x]]
<1>1. /\ x \in Thing /\ things[x] \in ConfigRow /\ e.to \subseteq Thing
      /\ x \in Route => e.op \in {"save", "retire"}
  BY DEF EditsInv, EditsTyped, Tables, Order
<1>2. Merged(things[x], e).to \subseteq Thing
  BY <1>1, MergedType DEF ConfigRow
<1>3. Validated(e) \subseteq Thing
  BY <1>1, <1>2 DEF Validated, Destinations, Value
<1>4. w \in Edit
  BY <1>1, <1>3 DEF Edit
<1>5. ASSUME x \in (Ivr \cup Group) \ Route, e.op \in {"save", "add"} PROVE Validated(e) = e.to
  BY <1>5 DEF Validated
<1>6. ASSUME x \in Route, e.op = "save"
      PROVE  /\ Destinations(x, Merged(things[x], e)) \subseteq Validated(e)
             /\ "trunk" \in e.names => e.to \cap Trunk \subseteq Validated(e)
  <2>1. Validated(e) = Destinations(x, Merged(things[x], e))
                         \cup (IF "trunk" \in e.names THEN e.to \cap Trunk ELSE {})
    BY <1>6 DEF Validated
  <2> QED
    BY <2>1
<1>7. x \in Route /\ e.op = "save" => Destined(Merged(things[x], e))
  BY DEF BeginEdit
<1>8. w.order = e /\ w.left = Validated(e) /\ w.read = things[x]
  OBVIOUS
<1>9. edit' = [edit EXCEPT ![d] = w] /\ UNCHANGED <<things, retired, mismatched>>
  BY DEF BeginEdit
<1> HIDE DEF w
<1>10. Promised(w)
  BY <1>5, <1>6, <1>7, <1>8 DEF Promised
<1> QED
  BY <1>4, <1>9, <1>10, OneEditMoves

LEMMA ValidateStep ==
  ASSUME EditsInv, NEW d \in Admin, Validate(d)
  PROVE  EditsInv'
<1>1. PICK S : edit' = [edit EXCEPT ![d] = IF \A t \in S : things[t].active
                                             THEN [edit[d] EXCEPT !.left = @ \ S]
                                             ELSE NoEdit]
  BY DEF Validate
<1>2. /\ edit[d] \in Edit /\ edit[d] # NoEdit /\ Promised(edit[d])
      /\ edit \in [Admin -> Edit \cup {NoEdit}]
      /\ UNCHANGED <<things, retired, mismatched>>
  BY DEF Validate, EditsInv, EditsTyped
<1>3. CASE \A t \in S : things[t].active
  <2> DEFINE w == [edit[d] EXCEPT !.left = @ \ S]
  <2>1. /\ w \in Edit /\ w.order = edit[d].order /\ w.left = edit[d].left \ S
        /\ w.read = edit[d].read
    BY <1>2 DEF Edit
  <2>2. edit' = [edit EXCEPT ![d] = w]
    <3> DEFINE ok == \A t \in S : things[t].active
    <3>1. ok /\ edit' = [edit EXCEPT ![d] = IF ok THEN w ELSE NoEdit]
      BY <1>1, <1>3
    <3> HIDE DEF ok, w
    <3> QED
      BY <3>1
  <2>3. \A t \in S : Known(t)
    BY <1>3 DEF Known
  <2> HIDE DEF w
  <2>4. Promised(w)
    BY <1>2, <2>1, <2>3 DEF Promised
  <2> QED
    BY <1>2, <2>1, <2>2, <2>4, OneEditMoves
<1>4. CASE ~ \A t \in S : things[t].active
  <2>1. edit' = [edit EXCEPT ![d] = NoEdit]
    BY <1>1, <1>4
  <2> QED
    BY <1>2, <2>1, EditsStutter
<1> QED
  BY <1>3, <1>4

\* Two rows with the same destination have it after the same PATCH, too; and if
\* the PATCH names all of it, any two rows have.
LEMMA SameDestination ==
  ASSUME NEW e \in Order, NEW a \in ConfigRow, NEW b \in ConfigRow, NEW x \in Route,
         \/ {"type", "value"} \subseteq e.names
         \/ Value(a) = Value(b) /\ a.type = b.type
  PROVE  /\ Destinations(x, Merged(a, e)) = Destinations(x, Merged(b, e))
         /\ Destined(Merged(a, e)) <=> Destined(Merged(b, e))
<1>1. /\ Value(Merged(a, e)) = Value(Merged(b, e))
      /\ Merged(a, e).type = Merged(b, e).type
  BY MergedType
<1> QED
  BY <1>1 DEF Destinations, Destined

\* The write of edit e, which read "read", in slot d.
LEMMA OneRowIsWritten ==
  ASSUME EditsInv, NEW d \in Admin, WriteRow(d),
         NEW e, e = edit[d].order, NEW read, read = edit[d].read
  PROVE  EditsInv'
<1> DEFINE x == e.thing
           row == Written(things[x], e)
<1>1. /\ edit[d] # NoEdit /\ edit[d].left = {}
      /\ things' = [things EXCEPT ![x] = row]
      /\ retired' = IF things[x].active /\ ~ row.active THEN retired \cup {x} ELSE retired
      /\ mismatched' = IF Mismatches(e, x, read) THEN mismatched \cup {x} ELSE mismatched \ {x}
      /\ edit' = [edit EXCEPT ![d] = NoEdit]
  BY DEF WriteRow, Change
<1>2. /\ e \in Order /\ x \in Thing /\ e.to \subseteq Targets(x) /\ read \in ConfigRow
      /\ e.op \in {"save", "add", "drop", "retire"} /\ Promised(edit[d])
  BY <1>1, EditType DEF EditsInv, EditsTyped
<1>3. /\ things \in Tables /\ things[x] \in ConfigRow /\ row \in ConfigRow
      /\ row.to \subseteq things[x].to \cup e.to
      /\ things[x].to \subseteq Targets(x)
      /\ edit \in [Admin -> Edit \cup {NoEdit}] /\ mismatched \subseteq Thing
  BY <1>2, WrittenType DEF Tables, EditsInv, EditsTyped
<1>4. things'[x] = row /\ \A y \in Thing : y # x => things'[y] = things[y]
  BY <1>1, <1>2, <1>3 DEF Tables
<1>5. EditsTyped'
  <2>1. things' \in Tables
    BY <1>1, <1>2, <1>3 DEF Tables
  <2>2. \A y \in Thing : things'[y].to \subseteq Targets(y)
    BY <1>2, <1>3, <1>4 DEF EditsInv, EditsTyped
  <2>3. edit' \in [Admin -> Edit \cup {NoEdit}]
    BY <1>1, <1>3
  <2>4. mismatched' \subseteq Thing
    BY <1>1, <1>2, <1>3
  <2> QED
    BY <2>1, <2>2, <2>3, <2>4 DEF EditsTyped, Tables
<1>6. ASSUME NEW t \in Thing, Known(t) PROVE Known(t)'
  <2>1. CASE t = x
    BY <1>1, <1>4, <1>6, <2>1 DEF Known
  <2>2. CASE t # x
    BY <1>1, <1>4, <1>6, <2>2 DEF Known
  <2> QED
    BY <2>1, <2>2
<1>7. \A y \in Thing : things'[y].to \subseteq Thing /\ things[y].to \subseteq Thing
  BY <1>3, <1>5 DEF EditsTyped, Tables, ConfigRow
<1>8. ASSUME NEW y \in Thing, y # x PROVE Aimed(y)'
  <2>1. things'[y] = things[y] /\ (y \in mismatched' <=> y \in mismatched)
    BY <1>1, <1>4, <1>8
  <2>2. Destinations(y, things[y]) \subseteq Thing
    BY <1>7 DEF Destinations, Value
  <2>3. Aimed(y)
    BY DEF EditsInv
  <2> QED
    BY <1>6, <1>7, <2>1, <2>2, <2>3 DEF Aimed, Destinations, Destined, Value
<1>9. Aimed(x)'
  <2>1. Aimed(x) /\ e.to \subseteq Thing
    BY <1>2 DEF EditsInv, Order
  <2>2. CASE x \in Route
    <3>1. x \in Pointing /\ e.op \in {"save", "retire"}
      BY <1>2, <2>2 DEF Pointing, Order
    <3>2. CASE e.op = "retire"
      <4>1. row.to = things[x].to /\ row.type = things[x].type
        BY <1>2, <1>3, <3>2, WrittenType
      <4>2. x \in mismatched' <=> x \in mismatched
        BY <1>1, <3>2 DEF Mismatches
      <4>3. Destinations(x, row) = Destinations(x, things[x]) /\ (Destined(row) <=> Destined(things[x]))
        BY <4>1 DEF Destinations, Destined, Value
      <4>4. Destinations(x, things[x]) \subseteq Thing
        BY <1>2, <1>7 DEF Destinations, Value
      <4> HIDE DEF row
      <4>5. x \notin mismatched => \A t \in Destinations(x, row) : Known(t)'
        <5>1. ASSUME x \notin mismatched, NEW t \in Destinations(x, row) PROVE Known(t)'
          <6>1. Known(t) /\ t \in Thing
            BY <2>1, <3>1, <4>3, <4>4, <5>1 DEF Aimed
          <6> QED
            BY <1>6, <6>1
        <5> QED
          BY <5>1
      <4>6. \A t \in row.to \cap Trunk : Known(t)'
        <5>1. ASSUME NEW t \in row.to \cap Trunk PROVE Known(t)'
          <6>1. Known(t) /\ t \in Thing
            BY <1>2, <1>7, <2>1, <2>2, <4>1, <5>1 DEF Aimed
          <6> QED
            BY <1>6, <6>1
        <5> QED
          BY <5>1
      <4>7. x \notin mismatched => Destined(row)
        BY <2>1, <2>2, <4>3 DEF Aimed
      <4> QED
        BY <1>4, <4>2, <4>5, <4>6, <4>7 DEF Aimed, Destinations, Destined, Value
    <3>3. CASE e.op = "save"
      <4>1. /\ row = Merged(things[x], e)
            /\ Value(row) = IF "value" \in e.names THEN Value(e) ELSE Value(things[x])
            /\ row.type = IF "type" \in e.names THEN e.type ELSE things[x].type
            /\ row.to \cap Trunk = (IF "trunk" \in e.names THEN e.to ELSE things[x].to) \cap Trunk
        BY <1>2, <1>3, <3>3, WrittenType, MergedType
      <4>2. /\ Destined(Merged(read, e))
            /\ \A t \in Destinations(x, Merged(read, e)) : Known(t)
            /\ "trunk" \in e.names => \A t \in e.to \cap Trunk : Known(t)
        BY <1>1, <1>2, <2>2, <3>3 DEF Promised
      <4>3. row.to \subseteq Thing /\ Destinations(x, row) \subseteq Thing
        BY <1>3 DEF ConfigRow, Destinations, Value
      <4> HIDE DEF row
      <4>4. ASSUME x \notin mismatched'
            PROVE  Destined(row) /\ \A t \in Destinations(x, row) : Known(t)
        <5>1. ~ Mismatches(e, x, read)
          BY <1>1, <4>4
        <5>2. CASE e.names \cap {"type", "value"} = {}
          <6>1. x \notin mismatched
            BY <3>3, <5>1, <5>2 DEF Mismatches
          <6>2. Value(row) = Value(things[x]) /\ row.type = things[x].type
            BY <4>1, <5>2
          <6> QED
            BY <2>1, <2>2, <3>1, <6>1, <6>2 DEF Aimed, Destinations, Destined
        <5>3. CASE e.names \cap {"type", "value"} # {}
          <6>1. \/ {"type", "value"} \subseteq e.names
                \/ Value(things[x]) = Value(read) /\ things[x].type = read.type
            BY <2>2, <3>3, <5>1, <5>3 DEF Mismatches
          <6>2. /\ Destinations(x, row) = Destinations(x, Merged(read, e))
                /\ Destined(row) <=> Destined(Merged(read, e))
            BY <1>2, <1>3, <2>2, <4>1, <6>1, SameDestination
          <6> QED
            BY <4>2, <6>2
        <5> QED
          BY <5>2, <5>3
      <4>5. \A t \in row.to \cap Trunk : Known(t)
        BY <2>1, <2>2, <4>1, <4>2 DEF Aimed
      <4> QED
        BY <1>4, <1>6, <4>3, <4>4, <4>5 DEF Aimed, Destinations, Destined, Value
    <3> QED
      BY <3>1, <3>2, <3>3
  <2>3. CASE x \in (Ivr \cup Group) \ Route
    <3>1. x \in Pointing /\ x \notin Route
      BY <2>3 DEF Pointing
    <3>2. x \notin mismatched' => x \notin mismatched
      BY <1>1, <3>1 DEF Mismatches
    <3>3. row.to \subseteq things[x].to \cup {t \in e.to : Known(t)}
      <4>1. CASE e.op \in {"drop", "retire"}
        BY <1>2, <1>3, <4>1, WrittenType
      <4>2. CASE e.op \in {"save", "add"}
        <5>1. \A t \in e.to : Known(t)
          BY <1>1, <1>2, <2>3, <4>2 DEF Promised
        <5> QED
          BY <1>3, <5>1
      <4> QED
        BY <1>2, <4>1, <4>2
    <3> HIDE DEF row
    <3>4. ASSUME x \notin mismatched', NEW t \in Destinations(x, row) PROVE Known(t)'
      <4>1. t \in row.to /\ t \notin Trunk
        BY <3>1, <3>4 DEF Destinations, Value
      <4>2. Known(t) /\ t \in Thing
        BY <1>2, <1>7, <2>1, <3>1, <3>2, <3>3, <3>4, <4>1 DEF Aimed, Destinations, Value
      <4> QED
        BY <1>6, <4>2
    <3> QED
      BY <1>4, <3>1, <3>4 DEF Aimed
  <2>4. CASE x \notin Pointing
    BY <2>4 DEF Aimed, Pointing
  <2> QED
    BY <2>2, <2>3, <2>4 DEF Pointing
<1>10. ASSUME NEW o \in Admin, edit'[o] # NoEdit PROVE Promised(edit[o])'
  <2>1. edit'[o] = edit[o] /\ Promised(edit[o])
    BY <1>1, <1>3, <1>10 DEF EditsInv
  <2>2. /\ edit[o].order.to \subseteq Thing /\ edit[o].order \in Order
        /\ edit[o].read \in ConfigRow
    BY <1>3, <1>10, <2>1, EditType DEF Order
  <2>3. Destinations(edit[o].order.thing, Merged(edit[o].read, edit[o].order)) \subseteq Thing
    BY <2>2, MergedType DEF Destinations, Value, ConfigRow
  <2> QED
    BY <1>6, <2>1, <2>2, <2>3 DEF Promised, Destinations, Destined, Value, Merged
<1> QED
  BY <1>5, <1>8, <1>9, <1>10 DEF EditsInv

LEMMA WriteRowStep ==
  ASSUME EditsInv, NEW d \in Admin, WriteRow(d)
  PROVE  EditsInv'
BY OneRowIsWritten

Counted == edits \in 0..MaxEdits

LEMMA AskedIsOrder ==
  ASSUME Counted, edits < MaxEdits, NEW e \in Asked[edits + 1]
  PROVE  e \in Order
<1>1. edits + 1 \in 1..MaxEdits
  BY PbxAssumption DEF Counted
<1> QED
  BY <1>1, PbxAssumption

LEMMA CountedStep == Counted /\ [PbxNext]_pbxVars => Counted'
<1> SUFFICES ASSUME Counted, [PbxNext]_pbxVars PROVE Counted'
  OBVIOUS
<1>1. ASSUME NEW d \in Admin, edits < MaxEdits, NEW e \in Asked[edits + 1], BeginEdit(d, e)
      PROVE  Counted'
  <2>1. edits' = edits + 1 /\ MaxEdits \in Nat
    BY <1>1, PbxAssumption DEF BeginEdit
  <2> QED
    BY <1>1, <2>1 DEF Counted
<1>2. ASSUME NEW d \in Admin, Validate(d) \/ WriteRow(d) \/ EditFails(d) PROVE Counted'
  BY <1>2 DEF Validate, WriteRow, EditFails, Counted
<1>3. CASE Applying \/ AsteriskRestarts \/ PbxCrash \/ UNCHANGED pbxVars
  <2>1. UNCHANGED edits
    BY <1>3, Zenon DEF Applying, AsteriskRestarts, PbxCrash, pbxVars, BeginApply, BeginFiles,
                OpenFile, FillFile, WriteFails, Reload, ApplyFails
  <2> QED
    BY <2>1 DEF Counted
<1> QED
  BY <1>1, <1>2, <1>3 DEF PbxNext, Editing

LEMMA EditsStep == Counted /\ EditsInv /\ [PbxNext]_pbxVars => EditsInv'
<1> SUFFICES ASSUME Counted, EditsInv, [PbxNext]_pbxVars PROVE EditsInv'
  OBVIOUS
<1>1. edit \in [Admin -> Edit \cup {NoEdit}]
  BY DEF EditsInv, EditsTyped
<1>2. CASE Editing
  <2>1. ASSUME NEW d \in Admin, edits < MaxEdits, NEW e \in Asked[edits + 1], BeginEdit(d, e)
        PROVE  EditsInv'
    BY <2>1, AskedIsOrder, BeginEditStep
  <2>2. ASSUME NEW d \in Admin, EditFails(d) PROVE EditsInv'
    <3>1. edit' = [edit EXCEPT ![d] = NoEdit] /\ UNCHANGED <<things, retired, mismatched>>
      BY <2>2 DEF EditFails
    <3> QED
      BY <1>1, <3>1, EditsStutter
  <2> QED
    BY <1>2, <2>1, <2>2, ValidateStep, WriteRowStep DEF Editing
<1>3. CASE PbxCrash
  <2>1. edit' = [d \in Admin |-> NoEdit] /\ UNCHANGED <<things, retired, mismatched>>
    BY <1>3 DEF PbxCrash
  <2> QED
    BY <1>1, <2>1, EditsStutter
<1>4. CASE Applying \/ AsteriskRestarts \/ UNCHANGED pbxVars
  <2>1. UNCHANGED <<things, edit, retired, mismatched>>
    BY <1>4, Zenon DEF Applying, AsteriskRestarts, pbxVars, BeginApply, BeginFiles, OpenFile,
                FillFile, WriteFails, Reload, ApplyFails
  <2> QED
    BY <1>1, <2>1, EditsStutter
<1> QED
  BY <1>2, <1>3, <1>4 DEF PbxNext

LEMMA EditsInit == PbxInit => Counted /\ EditsInv
<1> SUFFICES ASSUME PbxInit PROVE Counted /\ EditsInv
  OBVIOUS
<1>1. things = Configured /\ edit = [d \in Admin |-> NoEdit] /\ mismatched = {}
  BY DEF PbxInit
<1>2. EditsTyped
  BY <1>1, PbxAssumption DEF EditsTyped, Tables
<1>3. ASSUME NEW x \in Thing PROVE Aimed(x)
  <2>1. /\ \A t \in Configured[x].to : Configured[t].active
        /\ x \in Route => Destined(Configured[x])
    BY PbxAssumption
  <2> QED
    BY <1>1, <2>1 DEF Aimed, Destinations, Value, Known
<1>4. Counted
  BY PbxAssumption DEF PbxInit, Counted
<1> QED
  BY <1>1, <1>2, <1>3, <1>4 DEF EditsInv

\* Nothing that was never active is ever pointed at, and a route's value is of its
\* type's table, but for two overlapping PATCHes of its two halves.
THEOREM DanglingIsRetired == PbxSpec => []DanglingOnlyByRetirement
<1>1. EditsInv => DanglingOnlyByRetirement
  BY DEF EditsInv, Aimed, Known, DanglingOnlyByRetirement, Pointing, Thing
<1> QED
  BY <1>1, EditsInit, CountedStep, EditsStep, PTL DEF PbxSpec

-----------------------------------------------------------------------------
(* What applies leave behind.                                              *)

\* A state of the tables in which rows point only at what their kind may.
WellAimed(snap) == snap \in Tables /\ \A x \in Thing : snap[x].to \subseteq Targets(x)

LEMMA RenderType ==
  ASSUME NEW snap \in Tables
  PROVE  Render(snap) \in [Part -> File]
<1>1. \A S \in SUBSET Thing : Listed(snap, S) \in SUBSET Thing
  BY DEF Listed
<1>2. \A x \in Thing : Resolved(snap, x) \in SUBSET Thing
  BY DEF Resolved, Listed, Destinations, Value, Tables, ConfigRow, Thing
<1>3. /\ Device \in SUBSET Thing /\ Queue \in SUBSET Thing
      /\ Ivr \cup Group \in SUBSET Thing /\ Ivr \cup Route \in SUBSET Thing
  BY DEF Device, Thing
<1>4. UNION {Resolved(snap, x) : x \in Listed(snap, Ivr \cup Route)} \in SUBSET Thing
  BY <1>1, <1>2, <1>3
<1>5. RenderSip(snap) \in File
  BY <1>1, <1>3 DEF RenderSip, File
<1>6. RenderDialplan(snap) \in File
  BY <1>1, <1>3, <1>4 DEF RenderDialplan, File
<1>7. RenderQueues(snap) \in File
  BY <1>1, <1>3 DEF RenderQueues, File
<1> QED
  BY <1>5, <1>6, <1>7 DEF Render, Part

\* However stale, what is read of well-aimed rows is a dialplan without loose ends.
LEMMA RenderLands ==
  ASSUME NEW snap, WellAimed(snap)
  PROVE  Lands(Render(snap))
<1>1. /\ Render(snap)[2].jumps = UNION {Resolved(snap, x) : x \in Listed(snap, Ivr \cup Route)}
      /\ Render(snap)[1].has = Listed(snap, Device)
      /\ Render(snap)[2].has = Listed(snap, Ivr \cup Group)
      /\ Render(snap)[3].has = Listed(snap, Queue)
  <2>1. /\ Render(snap)[1] = RenderSip(snap)
        /\ Render(snap)[2] = RenderDialplan(snap)
        /\ Render(snap)[3] = RenderQueues(snap)
    BY DEF Render, Part
  <2> QED
    BY <2>1 DEF RenderSip, RenderDialplan, RenderQueues
<1>2. ASSUME NEW x \in Ivr \cup Route, NEW t \in Resolved(snap, x)
      PROVE  t \in Listed(snap, Device) \cup Listed(snap, Ivr \cup Group) \cup Listed(snap, Queue)
  <2>1. CASE x \in Outbound
    BY <1>2, <2>1 DEF Resolved, Listed, Device
  <2>2. CASE x \notin Outbound
    <3>1. t \in snap[x].to /\ t \notin Trunk /\ snap[t].active
      BY <1>2, <2>2 DEF Resolved, Listed, Destinations, Value
    <3>2. t \in Targets(x) /\ x \in Thing
      BY <3>1 DEF WellAimed, Thing
    <3>3. t \in Extension \cup Queue \cup Ivr \cup Group
      BY <3>1, <3>2 DEF Targets, Thing
    <3> QED
      BY <3>1, <3>3 DEF Listed, Device
  <2> QED
    BY <2>1, <2>2
<1>3. ASSUME NEW t \in Render(snap)[2].jumps
      PROVE  t \in UNION {Render(snap)[f].has : f \in Part}
  <2>1. PICK x \in Listed(snap, Ivr \cup Route) : t \in Resolved(snap, x)
    BY <1>1, <1>3
  <2>2. x \in Ivr \cup Route
    BY DEF Listed
  <2>3. t \in Render(snap)[1].has \cup Render(snap)[2].has \cup Render(snap)[3].has
    BY <1>1, <1>2, <2>1, <2>2
  <2> QED
    BY <2>3 DEF Part
<1> QED
  BY <1>3 DEF Lands

\* An apply that has begun its files and has not been forgotten yet.
Busy(j) == j.at \in {"write", "drain", "reload"}

\* What holds of an apply j while c is in the files, l is loaded, and m says "mixed".
Fits(j, c, l, m) ==
  /\ \A snap \in j.since : WellAimed(snap)
  /\ Busy(j) => Lands(j.text)
  /\ j.at \in {"idle", "read", "reload"} => \A f \in Part : j.files[f] = "done"
  /\ j.at = "write" => j.next = 1
  /\ j.at = "write" /\ j.alone => \A f \in Part : j.files[f] = "done" => c[f] = j.text[f]
  /\ j.at = "reload" /\ j.alone =>
       /\ c = j.text
       /\ \A f \in Part : f < j.next => l[f] = j.text[f]
  /\ j.at = "drain" => m

ApplyTypes ==
  /\ job \in [Applier -> Job]
  /\ file \in [Part -> File]
  /\ live \in [Part -> File]
  /\ mixed \in BOOLEAN

Settled == (~ mixed /\ \A p \in Applier : ~ Busy(job[p])) => live = file /\ Lands(file)

ApplyInv ==
  /\ ApplyTypes
  /\ \A p \in Applier : Fits(job[p], file, live, mixed)
  /\ \A p, q \in Applier : Busy(job[p]) /\ job[p].alone /\ Busy(job[q]) => p = q
  /\ Settled

LEMMA NoJobFits ==
  /\ NoJob \in Job /\ ~ Busy(NoJob)
  /\ \A c, l, m : Fits(NoJob, c, l, m)
<1>1. Blank \in File
  BY DEF Blank, File
<1>2. NoJob \in Job
  BY <1>1 DEF NoJob, Job, Part
<1>3. NoJob.since = {} /\ NoJob.at = "idle" /\ \A f \in Part : NoJob.files[f] = "done"
  BY DEF NoJob
<1> QED
  BY <1>2, <1>3 DEF Fits, Busy

\* While one apply is at work, what it does to the files and to Asterisk concerns no other.
LEMMA OthersFit ==
  ASSUME ApplyInv, NEW p \in Applier, NEW q \in Applier, q # p, Busy(job[p]),
         NEW c, NEW l, NEW m, job[q].at = "drain" => m
  PROVE  Fits(job[q], c, l, m)
<1>1. Fits(job[q], file, live, mixed) /\ ~ (Busy(job[q]) /\ job[q].alone)
  BY DEF ApplyInv
<1> QED
  BY <1>1 DEF Fits, Busy

\* A step of one apply that is at work.
LEMMA OneApplyMoves ==
  ASSUME ApplyInv, NEW p \in Applier, Busy(job[p]),
         NEW j \in Job, job' = [job EXCEPT ![p] = j],
         file' \in [Part -> File], live' \in [Part -> File], mixed' \in BOOLEAN,
         mixed => mixed' \/ job[p].alone,
         Fits(j, file', live', mixed'),
         j.alone => job[p].alone,
         ~ Busy(j) /\ ~ mixed' => live' = file' /\ Lands(file')
  PROVE  ApplyInv'
<1>1. job \in [Applier -> Job]
  BY DEF ApplyInv, ApplyTypes
<1>2. /\ job' \in [Applier -> Job] /\ job'[p] = j
      /\ \A q \in Applier : q # p => job'[q] = job[q]
  BY <1>1
<1>3. ASSUME NEW q \in Applier PROVE Fits(job'[q], file', live', mixed')
  <2>1. CASE q # p
    <3>1. job[q].at = "drain" => mixed'
      BY <2>1 DEF ApplyInv, Fits, Busy
    <3> QED
      BY <1>2, <2>1, <3>1, OthersFit
  <2> QED
    BY <1>2, <2>1
<1>4. ASSUME NEW q \in Applier, NEW o \in Applier, Busy(job'[q]), job'[q].alone, Busy(job'[o])
      PROVE  q = o
  <2>1. Busy(job[q]) /\ job[q].alone /\ Busy(job[o])
    BY <1>2, <1>4
  <2> QED
    BY <2>1 DEF ApplyInv
<1>5. (~ mixed' /\ \A q \in Applier : ~ Busy(job'[q])) => live' = file' /\ Lands(file')
  BY <1>2
<1>6. Settled'
  BY <1>5 DEF Settled, Busy, Lands
<1>7. \A q \in Applier : Fits(job[q], file, live, mixed)'
  BY <1>3 DEF Fits, Busy, WellAimed, Lands, Tables
<1>8. ApplyTypes'
  BY <1>2 DEF ApplyTypes
<1>9. \A q, o \in Applier : Busy(job[q])' /\ job'[q].alone /\ Busy(job[o])' => q = o
  BY <1>4 DEF Busy
<1> QED
  BY <1>6, <1>7, <1>8, <1>9 DEF ApplyInv

LEMMA JobType ==
  ASSUME ApplyInv, NEW p \in Applier
  PROVE  /\ job[p] \in Job /\ Fits(job[p], file, live, mixed)
         /\ job[p].text \in [Part -> File]
         /\ job[p].files \in [Part -> {"todo", "open", "done"}]
         /\ job[p].next \in Part /\ job[p].alone \in BOOLEAN
         /\ job[p].at \in {"idle", "read", "write", "drain", "reload"}
         /\ job[p].since \in SUBSET Tables
BY DEF ApplyInv, ApplyTypes, Job, Tables

\* The others that are at work, when one that has the files to itself is.
LEMMA AloneAtWork ==
  ASSUME ApplyInv, NEW p \in Applier, Busy(job[p]), job[p].alone
  PROVE  \A q \in Applier : q # p => ~ Busy(job[q])
BY DEF ApplyInv

\* Files that are being written have begun to be.
LEMMA Writing ==
  ASSUME ApplyInv, NEW p \in Applier, NEW f \in Part, job[p].files[f] # "done"
  PROVE  job[p].at \in {"write", "drain"} /\ Busy(job[p])
BY JobType DEF Fits, Busy

\* Neither edits nor Asterisk's restart move an apply on.
LEMMA OnlyRowsRead ==
  ASSUME ApplyInv, EditsInv', UNCHANGED <<file, mixed>>,
         live' = live \/ live' = file,
         job' = job \/ \E x \in Thing, row \in ConfigRow : Change(x, row)
  PROVE  ApplyInv'
<1>1. /\ job' \in [Applier -> Job]
      /\ \A p \in Applier :
           /\ job'[p].at = job[p].at /\ job'[p].alone = job[p].alone /\ job'[p].text = job[p].text
           /\ job'[p].files = job[p].files /\ job'[p].next = job[p].next
           /\ \A snap \in job'[p].since : WellAimed(snap)
  <2>1. CASE job' = job
    BY <2>1 DEF ApplyInv, ApplyTypes, Fits
  <2>2. CASE \E x \in Thing, row \in ConfigRow : Change(x, row)
    <3>1. job' = [p \in Applier |-> IF job[p].at = "read"
                                    THEN [job[p] EXCEPT !.since = @ \cup {things'}]
                                    ELSE job[p]]
      BY <2>2 DEF Change
    <3>2. WellAimed(things') /\ things' \in Tables
      BY DEF EditsInv, EditsTyped, WellAimed, Tables
    <3>3. ASSUME NEW p \in Applier
          PROVE  /\ job'[p] \in Job
                 /\ job'[p].at = job[p].at /\ job'[p].alone = job[p].alone
                 /\ job'[p].text = job[p].text /\ job'[p].files = job[p].files
                 /\ job'[p].next = job[p].next
                 /\ \A snap \in job'[p].since : WellAimed(snap)
      <4>1. job[p] \in Job /\ \A snap \in job[p].since : WellAimed(snap)
        BY DEF ApplyInv, ApplyTypes, Fits
      <4>2. CASE job[p].at = "read"
        <5>1. job'[p] = [job[p] EXCEPT !.since = @ \cup {things'}]
          BY <3>1, <4>2
        <5> QED
          BY <3>2, <4>1, <5>1 DEF Job, Tables
      <4>3. CASE job[p].at # "read"
        BY <3>1, <4>1, <4>3
      <4> QED
        BY <4>2, <4>3
    <3> QED
      BY <3>1, <3>3
  <2> QED
    BY <2>1, <2>2
<1>2. \A p \in Applier : Busy(job'[p]) <=> Busy(job[p])
  BY <1>1 DEF Busy
<1>3. ASSUME NEW p \in Applier PROVE Fits(job'[p], file', live', mixed')
  <2>1. Fits(job[p], file, live, mixed)
    BY DEF ApplyInv
  <2>2. ASSUME job[p].at = "reload", job[p].alone
        PROVE  file = job[p].text /\ \A f \in Part : f < job[p].next => live'[f] = job[p].text[f]
    BY <2>1, <2>2 DEF Fits
  <2> QED
    BY <1>1, <1>2, <2>1, <2>2 DEF Fits
<1>4. \A p \in Applier : Fits(job[p], file, live, mixed)'
  BY <1>3 DEF Fits, Busy, WellAimed, Lands, Tables
<1>5. \A p, q \in Applier : Busy(job[p])' /\ job'[p].alone /\ Busy(job[q])' => p = q
  BY <1>1, <1>2 DEF ApplyInv, Busy
<1>6. Settled'
  <2>1. (~ mixed' /\ \A p \in Applier : ~ Busy(job'[p])) => live' = file' /\ Lands(file')
    BY <1>2 DEF ApplyInv, Settled
  <2> QED
    BY <2>1 DEF Settled, Busy, Lands
<1> QED
  BY <1>1, <1>4, <1>5, <1>6 DEF ApplyInv, ApplyTypes

LEMMA FileLeftType ==
  ASSUME ApplyInv, NEW p \in Applier, NEW f \in Part, NEW at \in {"write", "drain"}
  PROVE  LET j == FileLeft(p, f, at) IN
         /\ j \in Job
         /\ j = NoJob \/ /\ j.files = [job[p].files EXCEPT ![f] = "done"]
                         /\ j.at = IF \A g \in Part : j.files[g] = "done" THEN "reload" ELSE at
                         /\ j.since = job[p].since /\ j.text = job[p].text
                         /\ j.next = job[p].next /\ j.alone = job[p].alone
         /\ j = NoJob => at = "drain"
         /\ j # NoJob /\ at = "drain" => j.at = "drain"
<1> DEFINE files == [job[p].files EXCEPT ![f] = "done"]
           over  == \A g \in Part : files[g] = "done"
           j     == [job[p] EXCEPT !.files = files, !.at = IF over THEN "reload" ELSE at]
<1>1. job[p] \in Job /\ files \in [Part -> {"todo", "open", "done"}]
  BY JobType
<1>2. FileLeft(p, f, at) = IF over /\ at = "drain" THEN NoJob ELSE j
  BY DEF FileLeft
<1> HIDE DEF files
<1>3. CASE over /\ at = "drain"
  BY <1>2, <1>3, NoJobFits
<1>4. CASE ~ (over /\ at = "drain")
  <2>1. FileLeft(p, f, at) = j
    BY <1>2, <1>4
  <2>2. /\ j \in Job /\ j.files = files /\ j.at = IF over THEN "reload" ELSE at
        /\ j.since = job[p].since /\ j.text = job[p].text
        /\ j.next = job[p].next /\ j.alone = job[p].alone
    BY <1>1 DEF Job
  <2>3. j.files = [job[p].files EXCEPT ![f] = "done"]
    BY <2>2 DEF files
  <2>4. j # NoJob \/ over
    BY <2>2 DEF NoJob
  <2>5. j.at # "idle"
    BY <2>2
  <2>6. j # NoJob
    BY <2>5 DEF NoJob
  <2> HIDE DEF j
  <2> QED
    BY <1>4, <2>1, <2>2, <2>3, <2>6
<1> QED
  BY <1>3, <1>4

LEMMA BeginApplyStep ==
  ASSUME EditsInv, ApplyInv, NEW p \in Applier, BeginApply(p)
  PROVE  ApplyInv'
<1> DEFINE j == [NoJob EXCEPT !.at = "read", !.since = {things}]
<1>1. /\ job \in [Applier -> Job] /\ job[p] = NoJob
      /\ job' = [job EXCEPT ![p] = j]
      /\ UNCHANGED <<things, file, live, mixed>>
  BY DEF BeginApply, ApplyInv, ApplyTypes
<1>2. WellAimed(things) /\ things \in Tables
  BY DEF EditsInv, EditsTyped, WellAimed
<1>3. j \in Job /\ ~ Busy(j) /\ Fits(j, file, live, mixed)
  <2>1. /\ j.at = "read" /\ j.since = {things} /\ j.files = NoJob.files
        /\ \A f \in Part : NoJob.files[f] = "done"
    BY DEF NoJob
  <2>2. j \in Job
    BY <1>2, NoJobFits DEF Job, Tables
  <2> QED
    BY <1>2, <2>1, <2>2 DEF Fits, Busy
<1> HIDE DEF j
<1>4. job' \in [Applier -> Job] /\ \A q \in Applier : job'[q] = IF q = p THEN j ELSE job[q]
  BY <1>1, <1>3
<1>5. \A q \in Applier : Busy(job'[q]) <=> Busy(job[q])
  BY <1>1, <1>3, <1>4, NoJobFits
<1>6. \A q \in Applier : Fits(job'[q], file', live', mixed')
  BY <1>1, <1>3, <1>4 DEF ApplyInv
<1>7. \A q \in Applier : Fits(job[q], file, live, mixed)'
  BY <1>6 DEF Fits, Busy, WellAimed, Lands, Tables
<1>8. \A q, o \in Applier : Busy(job[q])' /\ job'[q].alone /\ Busy(job[o])' => q = o
  <2>1. ASSUME NEW q \in Applier, NEW o \in Applier, Busy(job'[q]), job'[q].alone, Busy(job'[o])
        PROVE  q = o
    BY <1>3, <1>4, <1>5, <2>1 DEF ApplyInv
  <2> QED
    BY <2>1 DEF Busy
<1>9. Settled'
  <2>1. (~ mixed' /\ \A q \in Applier : ~ Busy(job'[q])) => live' = file' /\ Lands(file')
    BY <1>1, <1>5 DEF ApplyInv, Settled
  <2> QED
    BY <2>1 DEF Settled, Busy, Lands
<1> QED
  BY <1>1, <1>4, <1>7, <1>8, <1>9 DEF ApplyInv, ApplyTypes

Mix(then) == [x \in Thing |-> then[CHOOSE T \in Table : x \in T][x]]

\* What six queries return together is as well aimed as the tables they were sent to.
LEMMA SnapshotIsWellAimed ==
  ASSUME NEW S, \A snap \in S : WellAimed(snap), NEW then \in [Table -> S]
  PROVE  WellAimed(Mix(then))
<1> DEFINE snap == Mix(then)
<1>1. ASSUME NEW x \in Thing
      PROVE  snap[x] \in ConfigRow /\ snap[x].to \subseteq Targets(x)
  <2> DEFINE T == CHOOSE U \in Table : x \in U
  <2>1. \E U \in Table : x \in U
    BY DEF Table, Thing
  <2>2. T \in Table
    BY <2>1
  <2>3. WellAimed(then[T]) /\ snap[x] = then[T][x]
    BY <2>2 DEF Mix
  <2> QED
    BY <2>3 DEF WellAimed, Tables
<1> QED
  BY <1>1 DEF WellAimed, Tables, Mix

LEMMA BeginFilesStep ==
  ASSUME ApplyInv, NEW p \in Applier, BeginFiles(p)
  PROVE  ApplyInv'
<1>1. job[p].at = "read" /\ UNCHANGED <<file, live, mixed>>
  BY DEF BeginFiles
<1>2. PICK then \in [Table -> job[p].since] :
        job' = [o \in Applier |->
                  IF o # p THEN [job[o] EXCEPT !.alone = FALSE]
                  ELSE [NoJob EXCEPT !.at = "write", !.text = Render(Mix(then)),
                          !.files = [f \in Part |-> "todo"],
                          !.alone = \A q \in Applier : ~ Handling(q)]]
  BY DEF BeginFiles, Mix
<1>3. PICK snap : /\ WellAimed(snap)
                  /\ job' = [o \in Applier |->
                       IF o # p THEN [job[o] EXCEPT !.alone = FALSE]
                       ELSE [NoJob EXCEPT !.at = "write", !.text = Render(snap),
                               !.files = [f \in Part |-> "todo"],
                               !.alone = \A q \in Applier : ~ Handling(q)]]
  <2>1. \A s \in job[p].since : WellAimed(s)
    BY JobType DEF Fits
  <2>2. WellAimed(Mix(then))
    BY <2>1, SnapshotIsWellAimed
  <2> WITNESS Mix(then)
  <2> QED
    BY <1>2, <2>2
<1>4. PICK first \in BOOLEAN : first <=> \A q \in Applier : ~ Busy(job[q])
  OBVIOUS
<1>5. first = \A q \in Applier : ~ Handling(q)
  BY <1>4 DEF Handling, Busy
<1> DEFINE j == [NoJob EXCEPT !.at = "write", !.text = Render(snap),
                   !.files = [f \in Part |-> "todo"], !.alone = first]
<1>6. job' = [o \in Applier |-> IF o # p THEN [job[o] EXCEPT !.alone = FALSE] ELSE j]
  BY <1>3, <1>5
<1>7. /\ j \in Job /\ j.at = "write" /\ j.alone = first /\ j.since = {}
      /\ j.text = Render(snap) /\ j.next = 1 /\ \A f \in Part : j.files[f] = "todo"
  <2>1. Render(snap) \in [Part -> File]
    BY <1>3, RenderType DEF WellAimed
  <2>2. [f \in Part |-> "todo"] \in [Part -> {"todo", "open", "done"}]
    OBVIOUS
  <2>3. NoJob.since = {} /\ NoJob.next = 1
    BY DEF NoJob
  <2>4. NoJob \in Job
    BY NoJobFits
  <2>5. j \in Job
    BY <2>1, <2>2, <2>4 DEF Job
  <2>6. /\ j.at = "write" /\ j.alone = first /\ j.since = NoJob.since
        /\ j.text = Render(snap) /\ j.next = NoJob.next /\ j.files = [f \in Part |-> "todo"]
    BY <2>4 DEF Job
  <2> HIDE DEF j
  <2> QED
    BY <2>3, <2>5, <2>6
<1>8. Fits(j, file', live', mixed')
  <2>1. Lands(j.text)
    BY <1>3, <1>7, RenderLands
  <2> QED
    BY <1>7, <2>1 DEF Fits, Busy
<1> HIDE DEF j
<1>9. ASSUME NEW o \in Applier, o # p
      PROVE  /\ job'[o] \in Job /\ job'[o].alone = FALSE /\ job'[o].at = job[o].at
             /\ Fits(job'[o], file', live', mixed')
  <2>1. job'[o] = [job[o] EXCEPT !.alone = FALSE]
    BY <1>6, <1>9
  <2>2. job[o] \in Job /\ Fits(job[o], file, live, mixed)
    BY JobType
  <2>3. /\ job'[o] \in Job /\ job'[o].alone = FALSE /\ job'[o].at = job[o].at
        /\ job'[o].since = job[o].since /\ job'[o].text = job[o].text
        /\ job'[o].files = job[o].files /\ job'[o].next = job[o].next
    BY <2>1, <2>2 DEF Job
  <2> QED
    BY <1>1, <2>2, <2>3 DEF Fits, Busy
<1>10. job'[p] = j
  BY <1>6
<1>11. \A o \in Applier : Fits(job'[o], file', live', mixed')
  BY <1>8, <1>9, <1>10
<1>12. ApplyTypes'
  BY <1>1, <1>6, <1>7, <1>9, <1>10 DEF ApplyInv, ApplyTypes
<1>13. \A o \in Applier : Fits(job[o], file, live, mixed)'
  BY <1>11 DEF Fits, Busy, WellAimed, Lands, Tables
<1>14. \A q, o \in Applier : Busy(job[q])' /\ job'[q].alone /\ Busy(job[o])' => q = o
  <2>1. ASSUME NEW q \in Applier, NEW o \in Applier, Busy(job'[q]), job'[q].alone, Busy(job'[o])
        PROVE  q = o
    <3>1. q = p /\ first
      BY <1>7, <1>9, <1>10, <2>1
    <3>2. o = p
      BY <1>4, <1>9, <2>1, <3>1 DEF Busy
    <3> QED
      BY <3>1, <3>2
  <2> QED
    BY <2>1 DEF Busy
<1>15. Settled'
  <2>1. Busy(job'[p])
    BY <1>7, <1>10 DEF Busy
  <2> QED
    BY <2>1 DEF Settled, Busy
<1> QED
  BY <1>12, <1>13, <1>14, <1>15 DEF ApplyInv

LEMMA OpenFileStep ==
  ASSUME ApplyInv, NEW p \in Applier, NEW f \in Part, OpenFile(p, f)
  PROVE  ApplyInv'
<1> DEFINE j == [job[p] EXCEPT !.files[f] = "open"]
<1>1. /\ job[p].files[f] = "todo" /\ job' = [job EXCEPT ![p] = j]
      /\ file' = [file EXCEPT ![f] = Blank] /\ UNCHANGED <<live, mixed>>
  BY DEF OpenFile
<1>2. job[p].at \in {"write", "drain"} /\ Busy(job[p]) /\ Fits(job[p], file, live, mixed)
  BY <1>1, Writing, JobType
<1>3. /\ j \in Job /\ j.files = [job[p].files EXCEPT ![f] = "open"] /\ j.at = job[p].at
      /\ j.since = job[p].since /\ j.text = job[p].text
      /\ j.next = job[p].next /\ j.alone = job[p].alone
  BY JobType DEF Job
<1> HIDE DEF j
<1>4. file' \in [Part -> File] /\ \A g \in Part : g # f => file'[g] = file[g]
  BY <1>1 DEF ApplyInv, ApplyTypes, Blank, File
<1>5. Fits(j, file', live', mixed')
  <2>1. \A g \in Part : j.files[g] = "done" => g # f /\ job[p].files[g] = "done"
    BY <1>3, JobType
  <2> QED
    BY <1>1, <1>2, <1>3, <1>4, <2>1 DEF Fits, Busy
<1> QED
  BY <1>1, <1>2, <1>3, <1>4, <1>5, OneApplyMoves DEF ApplyInv, ApplyTypes, Busy

LEMMA FillFileStep ==
  ASSUME ApplyInv, NEW p \in Applier, NEW f \in Part, FillFile(p, f)
  PROVE  ApplyInv'
<1> DEFINE j == FileLeft(p, f, job[p].at)
<1>1. /\ job[p].files[f] = "open" /\ job' = [job EXCEPT ![p] = j]
      /\ file' = [file EXCEPT ![f] = job[p].text[f]] /\ UNCHANGED <<live, mixed>>
  BY DEF FillFile
<1>2. /\ job[p].at \in {"write", "drain"} /\ Busy(job[p]) /\ Fits(job[p], file, live, mixed)
      /\ job[p].files \in [Part -> {"todo", "open", "done"}] /\ job[p].text \in [Part -> File]
      /\ job[p].alone \in BOOLEAN
  BY <1>1, Writing, JobType
<1>3. /\ j \in Job
      /\ j = NoJob \/ /\ j.files = [job[p].files EXCEPT ![f] = "done"]
                      /\ j.at = IF \A g \in Part : j.files[g] = "done" THEN "reload" ELSE job[p].at
                      /\ j.since = job[p].since /\ j.text = job[p].text
                      /\ j.next = job[p].next /\ j.alone = job[p].alone
      /\ j = NoJob => job[p].at = "drain"
      /\ j # NoJob /\ job[p].at = "drain" => j.at = "drain"
  BY <1>2, FileLeftType
<1> HIDE DEF j
<1>4. /\ file' \in [Part -> File] /\ file'[f] = job[p].text[f]
      /\ \A g \in Part : g # f => file'[g] = file[g]
  BY <1>1, <1>2 DEF ApplyInv, ApplyTypes
<1>5. CASE j = NoJob
  <2>1. mixed' /\ ~ j.alone
    BY <1>1, <1>2, <1>3, <1>5 DEF Fits, NoJob
  <2>2. Fits(j, file', live', mixed')
    BY <1>5, NoJobFits
  <2> QED
    BY <1>1, <1>2, <1>3, <1>4, <2>1, <2>2, OneApplyMoves DEF ApplyInv, ApplyTypes
<1>6. CASE j # NoJob
  <2>1. /\ j.files = [job[p].files EXCEPT ![f] = "done"]
        /\ j.at \in {"write", "drain", "reload"}
        /\ j.since = job[p].since /\ j.text = job[p].text
        /\ j.next = job[p].next /\ j.alone = job[p].alone
        /\ j.at = "reload" => job[p].at = "write" /\ \A g \in Part : j.files[g] = "done"
        /\ j.at = "write" => job[p].at = "write"
        /\ j.at = "drain" => job[p].at = "drain"
    BY <1>2, <1>3, <1>6
  <2>2. ASSUME job[p].at = "write", job[p].alone, NEW g \in Part, j.files[g] = "done"
        PROVE  file'[g] = j.text[g]
    BY <1>2, <1>4, <2>1, <2>2 DEF Fits
  <2>3. ASSUME j.at = "reload", j.alone
        PROVE  file' = j.text /\ \A g \in Part : g < j.next => live'[g] = j.text[g]
    <3>1. \A g \in Part : file'[g] = j.text[g]
      BY <2>1, <2>2, <2>3
    <3>2. j.next = 1 /\ j.text \in [Part -> File]
      BY <1>2, <2>1, <2>3 DEF Fits
    <3>3. \A g \in Part : ~ (g < j.next)
      BY <3>2 DEF Part
    <3> QED
      BY <1>4, <3>1, <3>2, <3>3
  <2>4. Fits(j, file', live', mixed')
    BY <1>1, <1>2, <2>1, <2>2, <2>3 DEF Fits, Busy
  <2>5. Busy(j)
    BY <2>1 DEF Busy
  <2> QED
    BY <1>1, <1>2, <1>3, <1>4, <2>1, <2>4, <2>5, OneApplyMoves DEF ApplyInv, ApplyTypes
<1> QED
  BY <1>5, <1>6

LEMMA WriteFailsStep ==
  ASSUME ApplyInv, NEW p \in Applier, NEW f \in Part, WriteFails(p, f)
  PROVE  ApplyInv'
<1> DEFINE j == FileLeft(p, f, "drain")
<1>1. /\ job[p].files[f] # "done" /\ job' = [job EXCEPT ![p] = j]
      /\ mixed' = TRUE /\ UNCHANGED <<file, live>>
  BY DEF WriteFails
<1>2. job[p].at \in {"write", "drain"} /\ Busy(job[p]) /\ Fits(job[p], file, live, mixed)
  BY <1>1, Writing, JobType
<1>3. /\ j \in Job
      /\ j # NoJob => /\ j.since = job[p].since /\ j.text = job[p].text
                      /\ j.alone = job[p].alone
      /\ j # NoJob => j.at = "drain"
  BY <1>2, FileLeftType
<1> HIDE DEF j
<1>4. CASE j = NoJob
  <2>1. Fits(j, file', live', mixed') /\ ~ j.alone
    BY <1>4, NoJobFits DEF NoJob
  <2> QED
    BY <1>1, <1>2, <1>3, <2>1, OneApplyMoves DEF ApplyInv, ApplyTypes
<1>5. CASE j # NoJob
  <2>1. Fits(j, file', live', mixed')
    BY <1>1, <1>2, <1>3, <1>5 DEF Fits, Busy
  <2> QED
    BY <1>1, <1>2, <1>3, <1>5, <2>1, OneApplyMoves DEF ApplyInv, ApplyTypes
<1> QED
  BY <1>4, <1>5

LEMMA ReloadStep ==
  ASSUME ApplyInv, NEW p \in Applier, Reload(p)
  PROVE  ApplyInv'
<1>1. /\ job[p].at = "reload"
      /\ live' = [live EXCEPT ![job[p].next] = file[job[p].next]]
      /\ UNCHANGED file
  BY DEF Reload
<1>2. /\ Busy(job[p]) /\ job[p] \in Job /\ Fits(job[p], file, live, mixed)
      /\ job[p].next \in Part /\ job[p].alone \in BOOLEAN
  BY <1>1, JobType DEF Busy
<1>3. /\ live \in [Part -> File] /\ file \in [Part -> File] /\ mixed \in BOOLEAN
      /\ live' \in [Part -> File] /\ file' \in [Part -> File]
      /\ live'[job[p].next] = file[job[p].next]
      /\ \A g \in Part : g # job[p].next => live'[g] = live[g]
  BY <1>1, <1>2 DEF ApplyInv, ApplyTypes
<1>4. ASSUME job[p].alone
      PROVE  /\ file = job[p].text
             /\ \A g \in Part : g <= job[p].next => live'[g] = job[p].text[g]
  <2>1. file = job[p].text /\ \A g \in Part : g < job[p].next => live[g] = job[p].text[g]
    BY <1>1, <1>2, <1>4 DEF Fits
  <2>2. ASSUME NEW g \in Part, g <= job[p].next PROVE live'[g] = job[p].text[g]
    <3>1. g = job[p].next \/ g < job[p].next
      BY <1>2, <2>2 DEF Part
    <3> QED
      BY <1>3, <2>1, <3>1
  <2> QED
    BY <2>1, <2>2
<1>5. CASE job[p].next < 3
  <2> DEFINE j == [job[p] EXCEPT !.next = @ + 1]
  <2>1. job' = [job EXCEPT ![p] = j] /\ UNCHANGED mixed
    <3>1. job' = [job EXCEPT ![p].next = @ + 1] /\ UNCHANGED mixed
      BY <1>5 DEF Reload
    <3> QED
      BY <3>1
  <2>2. job[p].next + 1 \in Part /\ \A g \in Part : g < job[p].next + 1 => g <= job[p].next
    BY <1>2, <1>5 DEF Part
  <2>3. /\ j \in Job /\ j.next = job[p].next + 1 /\ j.at = "reload"
        /\ j.since = job[p].since /\ j.text = job[p].text
        /\ j.files = job[p].files /\ j.alone = job[p].alone
    BY <1>1, <1>2, <2>2 DEF Job
  <2> HIDE DEF j
  <2>4. Fits(j, file', live', mixed')
    BY <1>1, <1>2, <1>4, <2>2, <2>3 DEF Fits, Busy
  <2>5. Busy(j)
    BY <2>3 DEF Busy
  <2> QED
    BY <1>2, <1>3, <2>1, <2>3, <2>4, <2>5, OneApplyMoves
<1>6. CASE ~ (job[p].next < 3)
  <2>1. job' = [job EXCEPT ![p] = NoJob] /\ mixed' = ~ job[p].alone
    BY <1>6 DEF Reload
  <2>2. \A g \in Part : g <= job[p].next
    BY <1>2, <1>6 DEF Part
  <2>3. ASSUME ~ mixed' PROVE live' = file' /\ Lands(file')
    <3>1. job[p].alone /\ file = job[p].text /\ \A g \in Part : live'[g] = file[g]
      BY <1>4, <2>1, <2>2, <2>3
    <3>2. Lands(job[p].text)
      BY <1>2 DEF Fits
    <3> QED
      BY <1>1, <1>3, <3>1, <3>2
  <2>4. ~ NoJob.alone /\ mixed' \in BOOLEAN /\ (mixed => mixed' \/ job[p].alone)
    BY <1>2, <2>1 DEF NoJob
  <2> QED
    BY <1>2, <1>3, <2>1, <2>3, <2>4, NoJobFits, OneApplyMoves
<1> QED
  BY <1>5, <1>6

LEMMA ApplyFailsStep ==
  ASSUME ApplyInv, NEW p \in Applier, ApplyFails(p)
  PROVE  ApplyInv'
<1>1. /\ job' = [job EXCEPT ![p] = NoJob] /\ UNCHANGED file
      /\ job[p].at \in {"read", "reload"}
  BY DEF ApplyFails
<1>2. /\ job \in [Applier -> Job] /\ job[p].next \in Part /\ mixed \in BOOLEAN
      /\ live \in [Part -> File] /\ file \in [Part -> File]
  BY JobType DEF ApplyInv, ApplyTypes
<1>3. CASE job[p].at = "reload"
  <2>1. mixed' = TRUE /\ Busy(job[p]) /\ ~ NoJob.alone
    BY <1>2, <1>3 DEF ApplyFails, Busy, NoJob
  <2>2. live' \in [Part -> File]
    BY <1>2 DEF ApplyFails
  <2> QED
    BY <1>1, <1>2, <2>1, <2>2, NoJobFits, OneApplyMoves
<1>4. CASE job[p].at = "read"
  <2>1. UNCHANGED <<file, live>> /\ mixed' = mixed
    BY <1>2, <1>4 DEF ApplyFails
  <2>2. job' \in [Applier -> Job] /\ \A q \in Applier : job'[q] = IF q = p THEN NoJob ELSE job[q]
    BY <1>1, <1>2, NoJobFits
  <2>3. \A q \in Applier : Busy(job'[q]) <=> Busy(job[q])
    BY <1>4, <2>2, NoJobFits DEF Busy
  <2>4. \A q \in Applier : Fits(job'[q], file', live', mixed')
    BY <2>1, <2>2, NoJobFits DEF ApplyInv
  <2>5. \A q \in Applier : Fits(job[q], file, live, mixed)'
    BY <2>4 DEF Fits, Busy, WellAimed, Lands, Tables
  <2>6. ASSUME NEW q \in Applier, NEW o \in Applier, Busy(job'[q]), job'[q].alone, Busy(job'[o])
        PROVE  q = o
    BY <2>2, <2>3, <2>6, NoJobFits DEF ApplyInv
  <2>7. \A q, o \in Applier : Busy(job[q])' /\ job'[q].alone /\ Busy(job[o])' => q = o
    BY <2>6 DEF Busy
  <2>8. Settled'
    <3>1. (~ mixed' /\ \A q \in Applier : ~ Busy(job'[q])) => live' = file' /\ Lands(file')
      BY <2>1, <2>3 DEF ApplyInv, Settled
    <3> QED
      BY <3>1 DEF Settled, Busy, Lands
  <2> QED
    BY <1>2, <2>1, <2>2, <2>5, <2>7, <2>8 DEF ApplyInv, ApplyTypes
<1> QED
  BY <1>1, <1>3, <1>4

LEMMA PbxCrashStep ==
  ASSUME ApplyInv, PbxCrash
  PROVE  ApplyInv'
<1>1. /\ job' = [p \in Applier |-> NoJob] /\ UNCHANGED <<file, live>>
      /\ mixed' = (mixed \/ \E p \in Applier : Busy(job[p]))
  BY DEF PbxCrash, Handling, Busy
<1>2. \A p \in Applier : ~ Busy(job'[p]) /\ Fits(job'[p], file', live', mixed')
  BY <1>1, NoJobFits
<1>3. \A p \in Applier : ~ Busy(job[p])' /\ Fits(job[p], file, live, mixed)'
  BY <1>2 DEF Fits, Busy, WellAimed, Lands, Tables
<1>4. mixed' \in BOOLEAN /\ (~ mixed' => ~ mixed /\ \A p \in Applier : ~ Busy(job[p]))
  BY <1>1 DEF ApplyInv, ApplyTypes
<1>5. Settled'
  <2>1. ~ mixed' => live' = file' /\ Lands(file')
    BY <1>1, <1>4 DEF ApplyInv, Settled
  <2> QED
    BY <2>1 DEF Settled, Lands
<1>6. ApplyTypes'
  BY <1>1, <1>4, NoJobFits DEF ApplyInv, ApplyTypes
<1> QED
  BY <1>3, <1>5, <1>6 DEF ApplyInv

LEMMA ApplyStep == EditsInv /\ EditsInv' /\ ApplyInv /\ [PbxNext]_pbxVars => ApplyInv'
<1> SUFFICES ASSUME EditsInv, EditsInv', ApplyInv, [PbxNext]_pbxVars PROVE ApplyInv'
  OBVIOUS
<1>1. CASE Editing
  <2>1. UNCHANGED <<file, live, mixed>>
    BY <1>1 DEF Editing, BeginEdit, Validate, WriteRow, EditFails
  <2>2. job' = job \/ \E x \in Thing, row \in ConfigRow : Change(x, row)
    <3>1. ASSUME NEW d \in Admin, WriteRow(d)
          PROVE  \E x \in Thing, row \in ConfigRow : Change(x, row)
      <4> DEFINE e == edit[d].order
      <4>1. edit[d] # NoEdit /\ Change(e.thing, Written(things[e.thing], e))
        BY <3>1 DEF WriteRow
      <4>2. e \in Order /\ e.thing \in Thing
        BY <4>1, EditType DEF EditsInv, EditsTyped
      <4>3. Written(things[e.thing], e) \in ConfigRow
        BY <4>2, WrittenType DEF EditsInv, EditsTyped, Tables
      <4> QED
        BY <4>1, <4>2, <4>3
    <3>2. ASSUME NEW d \in Admin, (\E e \in Asked[edits + 1] : BeginEdit(d, e)) \/ Validate(d)
                                      \/ EditFails(d)
          PROVE  job' = job
      BY <3>2 DEF BeginEdit, Validate, EditFails
    <3> QED
      BY <1>1, <3>1, <3>2 DEF Editing
  <2> QED
    BY <2>1, <2>2, OnlyRowsRead
<1>2. CASE AsteriskRestarts \/ UNCHANGED pbxVars
  <2>1. UNCHANGED <<job, file, mixed>> /\ live' \in {live, file}
    BY <1>2 DEF AsteriskRestarts, pbxVars
  <2> QED
    BY <2>1, OnlyRowsRead
<1>3. CASE Applying
  BY <1>3, BeginApplyStep, BeginFilesStep, OpenFileStep, FillFileStep, WriteFailsStep,
     ReloadStep, ApplyFailsStep DEF Applying
<1>4. CASE PbxCrash
  BY <1>4, PbxCrashStep
<1> QED
  BY <1>1, <1>2, <1>3, <1>4 DEF PbxNext

LEMMA ApplyInit == PbxInit => ApplyInv
<1> SUFFICES ASSUME PbxInit PROVE ApplyInv
  OBVIOUS
<1>1. /\ job = [p \in Applier |-> NoJob] /\ mixed = FALSE
      /\ file = [f \in Part |-> Blank] /\ live = [f \in Part |-> Blank]
  BY DEF PbxInit
<1>2. Blank \in File /\ Lands([f \in Part |-> Blank])
  <2>1. 2 \in Part /\ Blank.jumps = {}
    BY DEF Part, Blank
  <2> QED
    BY <2>1 DEF Lands, Blank, File
<1>3. ApplyTypes
  BY <1>1, <1>2, NoJobFits DEF ApplyTypes
<1>4. Settled
  BY <1>1, <1>2 DEF Settled
<1> QED
  BY <1>1, <1>3, <1>4, NoJobFits DEF ApplyInv

LEMMA PbxSpecInv == PbxSpec => [](Counted /\ EditsInv /\ ApplyInv)
<1>1. Counted /\ EditsInv /\ ApplyInv /\ [PbxNext]_pbxVars => (Counted /\ EditsInv /\ ApplyInv)'
  BY CountedStep, EditsStep, ApplyStep
<1> QED
  BY <1>1, EditsInit, ApplyInit, PTL DEF PbxSpec

\* An apply that has the files to itself and ends well leaves no loose ends in
\* what Asterisk has loaded, and nothing but an apply changes that.
THEOREM LiveJumpsStayLanded == PbxSpec => []LiveJumpsLand
<1>1. EditsInv /\ ApplyInv => LiveJumpsLand
  BY DEF ApplyInv, Settled, LiveJumpsLand, Unmixed, Handling, Busy
<1> QED
  BY <1>1, PbxSpecInv, PTL

\* The tables, the edits and applies under way and the files keep their types.
THEOREM PbxTypeCorrect == PbxSpec => []PbxTypeOK
<1> DEFINE Left == retired \subseteq Thing
<1>1. PbxInit => Left
  BY DEF PbxInit
<1>2. EditsInv /\ Left /\ [PbxNext]_pbxVars => Left'
  <2> SUFFICES ASSUME EditsInv, Left, [PbxNext]_pbxVars PROVE Left'
    OBVIOUS
  <2>1. ASSUME NEW d \in Admin, WriteRow(d) PROVE Left'
    <3>1. edit[d] # NoEdit /\ retired' \subseteq retired \cup {edit[d].order.thing}
      BY <2>1 DEF WriteRow
    <3>2. edit[d].order.thing \in Thing
      BY <3>1, EditType DEF EditsInv, EditsTyped
    <3> QED
      BY <3>1, <3>2
  <2>2. ASSUME NEW d \in Admin,
               (\E e \in Asked[edits + 1] : BeginEdit(d, e)) \/ Validate(d) \/ EditFails(d)
        PROVE  Left'
    BY <2>2 DEF BeginEdit, Validate, EditFails
  <2>3. CASE Applying \/ AsteriskRestarts \/ PbxCrash \/ UNCHANGED pbxVars
    BY <2>3, Zenon DEF Applying, AsteriskRestarts, PbxCrash, pbxVars, BeginApply, BeginFiles,
                OpenFile, FillFile, WriteFails, Reload, ApplyFails
  <2> QED
    BY <2>1, <2>2, <2>3 DEF PbxNext, Editing
<1>3. Counted /\ EditsInv /\ ApplyInv /\ Left => PbxTypeOK
  BY DEF Counted, EditsInv, EditsTyped, Tables, ApplyInv, ApplyTypes, PbxTypeOK
<1> HIDE DEF Left
<1> QED
  BY <1>1, <1>2, <1>3, PbxSpecInv, PTL DEF PbxSpec
=============================================================================
