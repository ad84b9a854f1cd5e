-------------------------- MODULE Enricher_proofs ---------------------------
(***************************************************************************)
(* Theorems about Enricher, for every sequence of transactions and every   *)
(* number of failed queries and crashes: no part of a snapshot is older    *)
(* than its date, and of two snapshots the later one never reads less.     *)
(***************************************************************************)
EXTENDS Enricher, SequenceTheorems, WellFoundedInduction, TLAPS

AnswerType == [opcoes : Nat, nan : BOOLEAN]
CursorType == [ver : Nat, row : Nat, answers : Seq(AnswerType), state : {"whole", "partial"}]
EventType == [n : 1 .. Len(log), known : Nat, recurso : RecursoType,
              missed : SUBSET Tables, enriched : BOOLEAN]

\* The options among these answers were read no earlier than the c-th transaction.
AnswersFrom(answers, c) ==
  \A a \in DOMAIN answers : answers[a].opcoes # 0 => answers[a].opcoes >= Version("opcoes", c)

\* A part was read after the c-th transaction and before the d-th.
PartWithin(part, q, c, d) ==
  part.state # "default" => Version(q, c) <= part.ver /\ part.ver <= Version(q, d)

\* What was read for the Event in hand was read since its date.
Building ==
  pc # "read" =>
    /\ next <= committed
    /\ \A q \in Parts : PartWithin(recurso.parts[q], q, known, committed)
    /\ AnswersFrom(recurso.answers, known)

\* And so were the custom fields that are being read.
Scanning ==
  pc = "campo" =>
    /\ Version("campos", known) <= cursor.ver /\ cursor.ver <= Version("campos", committed)
    /\ AnswersFrom(cursor.answers, known)

\* What was published was read before the date of the Event in hand.
Behind ==
  \A k \in DOMAIN published : \A q \in Parts :
    Filled(published[k], q) =>
      /\ published[k].recurso.parts[q].ver <= Version(q, committed)
      /\ pc # "read" => published[k].recurso.parts[q].ver <= Version(q, known)

\* The inductive invariant.
IInv ==
  /\ TypeOK
  /\ cursor \in CursorType
  /\ Building
  /\ Scanning
  /\ Behind
  /\ NotOlderThanDate
  /\ LaterReadsNewer

-----------------------------------------------------------------------------
(* The versions of a table *)

\* A set of naturals that is not empty and has a bound has a greatest element.
LEMMA Greatest ==
  ASSUME NEW c \in Nat, NEW S, S \subseteq 0 .. c, S # {}
  PROVE  \E m \in S : \A k \in S : k <= m
<1> DEFINE T == {n \in Nat : c - n \in S}
           less == OpToRel(<, Nat)
<1>0. \A k \in S : k \in Int /\ k <= c
  OBVIOUS
<1>1. T \subseteq Nat /\ T # {}
  <2>1. PICK k \in S : TRUE
    OBVIOUS
  <2>2. c - k \in Nat /\ c - (c - k) = k
    BY <1>0
  <2> QED
    BY <2>1, <2>2
<1>2. PICK t \in T : \A u \in T : ~(<<u, t>> \in less)
  <2> HIDE DEF T, less
  <2>1. IsWellFoundedOn(less, Nat)
    BY NatLessThanWellFounded DEF less
  <2> QED
    BY <1>1, <2>1, WFMin
<1>3. ASSUME NEW u \in T PROVE ~(u < t)
  <2>1. <<u, t>> \in Nat \X Nat /\ <<u, t>>[1] = u /\ <<u, t>>[2] = t
    BY <1>1
  <2> HIDE DEF T
  <2> QED
    BY <1>2, <2>1 DEF OpToRel
<1>4. c - t \in S /\ t \in Nat
  OBVIOUS
<1>5. ASSUME NEW k \in S PROVE k <= c - t
  <2>1. c - k \in T
    <3>1. c - k \in Nat /\ c - (c - k) = k
      BY <1>0
    <3> QED
      BY <3>1
  <2>2. ~(c - k < t)
    BY <1>3, <2>1
  <2> QED
    BY <1>0, <1>4, <2>2
<1> QED
  BY <1>4, <1>5

\* The version is the last transaction that wrote the table.
LEMMA VersionShape ==
  ASSUME NEW c \in Nat, NEW t
  PROVE  /\ Version(t, c) \in 0 .. c
         /\ \A n \in 1 .. c : t \in log[n].writes => n <= Version(t, c)
         /\ Version(t, c) = 0 \/ t \in log[Version(t, c)].writes
<1> DEFINE writers == {n \in 1 .. c : t \in log[n].writes}
           last == CHOOSE n \in writers : \A m \in writers : m <= n
<1>1. CASE writers = {}
  BY <1>1 DEF Version
<1>2. CASE writers # {}
  <2>1. writers \subseteq 0 .. c
    OBVIOUS
  <2>2. last \in writers /\ \A m \in writers : m <= last
    <3>1. \E m \in writers : \A k \in writers : k <= m
      <4> HIDE DEF writers
      <4> QED
        BY <1>2, <2>1, Greatest
    <3> HIDE DEF writers
    <3> QED
      BY <3>1
  <2>3. Version(t, c) = last
    BY <1>2 DEF Version
  <2> HIDE DEF last
  <2> QED
    BY <2>2, <2>3
<1> QED
  BY <1>1, <1>2

\* Versions never go back.
LEMMA VersionGrows ==
  ASSUME NEW c \in Nat, NEW d \in Nat, c <= d, NEW t
  PROVE  Version(t, c) <= Version(t, d)
<1>1. CASE Version(t, c) = 0
  BY <1>1, VersionShape
<1>2. CASE Version(t, c) # 0
  <2>1. Version(t, c) \in 1 .. d /\ t \in log[Version(t, c)].writes
    BY <1>2, VersionShape
  <2> QED
    BY <2>1, VersionShape
<1> QED
  BY <1>1, <1>2

\* The log is fixed, and what was true of its versions stays true.
LEMMA VersionStays ==
  ASSUME UNCHANGED log
  PROVE  \A t, c : Version(t, c)' = Version(t, c)
BY DEF Version

\* The transactions are transactions.
LEMMA LogShape ==
  ASSUME TypeOK
  PROVE  /\ Len(log) \in Nat /\ committed \in Nat /\ committed <= Len(log)
         /\ \A n \in 1 .. committed : log[n] \in Transaction
<1>1. log \in Seq(Transaction)
  BY EnricherAssumption DEF TypeOK
<1>2. Len(log) \in Nat /\ committed \in 0 .. Len(log)
  BY <1>1 DEF TypeOK
<1> HIDE DEF Transaction
<1>3. \A n \in 1 .. Len(log) : log[n] \in Transaction
  BY <1>1, ElementOfSeq
<1> QED
  BY <1>2, <1>3

\* The version of a part, in hand or published, is a natural.
LEMMA PartShape ==
  ASSUME NEW r \in RecursoType, NEW q \in Parts
  PROVE  r.parts[q] \in PartType /\ r.parts[q].ver \in Nat
<1>1. r.parts \in [Parts -> PartType]
  BY DEF RecursoType
<1>2. r.parts[q] \in PartType
  BY <1>1
<1> QED
  BY <1>2 DEF PartType

\* What was published holds a Recurso.
LEMMA EventShape ==
  ASSUME TypeOK, NEW k \in DOMAIN published
  PROVE  published[k].recurso \in RecursoType
<1>1. published \in Seq(EventType)
  BY DEF TypeOK, EventType
<1>2. published[k] \in EventType
  <2> HIDE DEF EventType
  <2> QED
    BY <1>1, ElementOfSeq
<1> QED
  BY <1>2 DEF EventType

-----------------------------------------------------------------------------
(* What the steps have in common *)

\* What is said of the Events that were published stands while nothing is published.
LEMMA PublishedStays ==
  ASSUME IInv, UNCHANGED <<log, published>>
  PROVE  NotOlderThanDate' /\ LaterReadsNewer'
<1>1. NotOlderThanDate'
  BY VersionStays DEF IInv, NotOlderThanDate, Filled
<1>2. LaterReadsNewer'
  BY DEF IInv, LaterReadsNewer, Filled
<1> QED
  BY <1>1, <1>2

\* And that they were read before the Event in hand, while it stays in hand.
LEMMA BehindStays ==
  ASSUME IInv, UNCHANGED <<log, published, committed, known>>, pc # "read" \/ pc' = "read"
  PROVE  Behind'
BY VersionStays DEF IInv, Behind, Filled

\* A query: it may fill parts of the Recurso with what MariaDB holds at the moment, and
\* leaves everything else alone.
LEMMA QueryIInv ==
  ASSUME IInv, pc # "read", pc' \in {"campo", "publish"} \cup Parts, Asking' = Asking,
         faults' \in 0 .. MaxFaults, missed' \subseteq Tables,
         recurso' \in RecursoType, cursor' \in CursorType, cursor'.ver <= committed,
         \A q \in Parts : \/ recurso'.parts[q] = recurso.parts[q]
                          \/ recurso'.parts[q].ver <= committed
                               /\ PartWithin(recurso'.parts[q], q, known, committed),
         AnswersFrom(recurso'.answers, known), Scanning'
  PROVE  IInv'
<1>1. UNCHANGED <<log, committed, mariadb, saved, next, known, published, crashes>>
  BY DEF Asking, server
<1>2. pc' # "read"
  BY DEF Parts
<1>3. \A q \in Parts : /\ recurso'.parts[q].ver <= committed
                       /\ PartWithin(recurso'.parts[q], q, known, committed)
  BY DEF IInv, TypeOK, Building
<1>4. TypeOK'
  <2>1. cursor'.ver \in 0 .. committed /\ cursor'.row \in Nat /\ cursor'.state \in {"whole", "partial"}
    BY LogShape DEF IInv, CursorType
  <2> QED
    BY <1>1, <1>3, <2>1 DEF IInv, TypeOK
<1>5. Building'
  BY <1>1, <1>2, <1>3, VersionStays DEF IInv, Building, PartWithin, AnswersFrom
<1> QED
  BY <1>1, <1>2, <1>4, <1>5, PublishedStays, BehindStays DEF IInv

\* A part of the Recurso takes a value, and no other does.
LEMMA FillShape ==
  ASSUME recurso \in RecursoType, NEW q \in Parts, NEW part \in PartType, Fill(q, part)
  PROVE  /\ recurso' \in RecursoType /\ recurso'.answers = recurso.answers
         /\ recurso'.parts[q] = part
         /\ \A p \in Parts \ {q} : recurso'.parts[p] = recurso.parts[p]
BY DEF RecursoType, Fill

\* What a query reads of a table now is what it holds since the Event's date.
LEMMA NowWithin ==
  ASSUME IInv, pc # "read", NEW q \in Tables
  PROVE  /\ Version(q, committed) \in 0 .. committed /\ committed \in Nat
         /\ Version(q, known) <= Version(q, committed)
         /\ Version(q, known) \in Nat
<1>1. committed \in Nat /\ known \in Nat /\ known <= committed
  BY LogShape DEF IInv, TypeOK
<1> QED
  BY <1>1, VersionShape, VersionGrows

\* A query whose result, if any, is one part of the Recurso.
LEMMA OnePartIInv ==
  ASSUME IInv, pc # "read", pc' \in {"publish"} \cup Parts, Asking' = Asking,
         faults' \in 0 .. MaxFaults, missed' \subseteq Tables, UNCHANGED cursor,
         NEW q \in Parts,
         \/ UNCHANGED recurso
         \/ \E state \in {"whole", "partial"} : Fill(q, [ver |-> Version(q, committed), state |-> state])
  PROVE  IInv'
<1>1. q \in Tables
  BY DEF Tables
<1>2. /\ Version(q, committed) \in 0 .. committed /\ committed \in Nat
      /\ Version(q, known) <= Version(q, committed)
  BY <1>1, NowWithin
<1>3. recurso \in RecursoType /\ cursor \in CursorType /\ cursor.ver <= committed
  BY LogShape DEF IInv, TypeOK
<1>4. pc' # "campo"
  BY DEF Parts
<1>5. AnswersFrom(recurso.answers, known)
  BY DEF IInv, Building
<1>6. CASE UNCHANGED recurso
  BY <1>3, <1>4, <1>5, <1>6, QueryIInv DEF Scanning
<1>7. CASE \E state \in {"whole", "partial"} : Fill(q, [ver |-> Version(q, committed), state |-> state])
  <2>1. PICK state \in {"whole", "partial"} : Fill(q, [ver |-> Version(q, committed), state |-> state])
    BY <1>7
  <2> DEFINE part == [ver |-> Version(q, committed), state |-> state]
  <2>2. part \in PartType /\ part.ver = Version(q, committed)
    BY <1>2 DEF PartType
  <2>3. part.ver <= committed /\ PartWithin(part, q, known, committed)
    BY <1>2, <2>2 DEF PartWithin
  <2> HIDE DEF part
  <2>4. /\ recurso' \in RecursoType /\ recurso'.answers = recurso.answers
        /\ recurso'.parts[q] = part
        /\ \A p \in Parts \ {q} : recurso'.parts[p] = recurso.parts[p]
    BY <1>3, <2>1, <2>2, FillShape DEF part
  <2> QED
    BY <1>3, <1>4, <1>5, <2>3, <2>4, QueryIInv DEF Scanning
<1> QED
  BY <1>6, <1>7

\* A fault is counted, and a query that failed is remembered.
LEMMA FaultShape ==
  ASSUME TypeOK, NEW q \in Tables
  PROVE  /\ Fault => faults' \in 0 .. MaxFaults
         /\ UNCHANGED faults => faults' \in 0 .. MaxFaults
         /\ Miss(q) \/ UNCHANGED missed => missed' \subseteq Tables
BY EnricherAssumption DEF TypeOK, Fault, Miss

\* The initial states satisfy the invariant.
LEMMA InitIInv ==
  ASSUME Init
  PROVE  IInv
<1>1. log \in Seq(Transaction)
  BY EnricherAssumption DEF Init
<1>2. Len(log) \in Nat
  BY <1>1
<1>3. NoRecurso \in RecursoType /\ \A q \in Parts : NoRecurso.parts[q] = NoPart
  BY EmptySeq DEF NoRecurso, RecursoType, NoPart, PartType
<1>4. NoCursor \in CursorType
  BY EmptySeq DEF NoCursor, CursorType
<1>5. TypeOK
  <2>1. 0 \in 0 .. Len(log) /\ 1 \in 0 + 1 .. 0 + 1
    BY <1>2
  <2>2. \A q \in Parts : recurso.parts[q].ver <= committed
    BY <1>3 DEF Init, NoPart
  <2>3. published \in Seq([n : 1 .. Len(log), known : Nat, recurso : RecursoType,
                          missed : SUBSET Tables, enriched : BOOLEAN])
    BY EmptySeq DEF Init
  <2> QED
    BY <1>3, <2>1, <2>2, <2>3, EnricherAssumption DEF Init, TypeOK, NoCursor
<1>6. Behind /\ NotOlderThanDate /\ LaterReadsNewer
  BY DEF Init, Behind, NotOlderThanDate, LaterReadsNewer
<1> QED
  BY <1>4, <1>5, <1>6 DEF Init, IInv, Building, Scanning

-----------------------------------------------------------------------------
(* The queries of Enrich *)

\* A query of one row fills its part, or leaves it, and misses at most its own.
LEMMA QueryRowShape ==
  ASSUME IInv, NEW q \in Parts, NEW v, QueryRow(q, v)
  PROVE  /\ faults' \in 0 .. MaxFaults /\ missed' \subseteq Tables
         /\ \/ UNCHANGED recurso
            \/ \E state \in {"whole", "partial"} : Fill(q, [ver |-> v, state |-> state])
<1>1. q \in Tables
  BY DEF Tables
<1>2. faults' \in 0 .. MaxFaults /\ missed' \subseteq Tables
  BY <1>1, FaultShape DEF IInv, QueryRow
<1>3. Read(q, v) = [ver |-> v, state |-> "partial"] \/ Read(q, v) = [ver |-> v, state |-> "whole"]
  BY DEF Read
<1> QED
  BY <1>2, <1>3 DEF QueryRow

\* The seller, the row of pedidos and the address.
LEMMA RowQueriesIInv ==
  ASSUME IInv, Representante \/ DadosPedido \/ Endereco
  PROVE  IInv'
<1> USE DEF Parts, At, GoTo
<1>1. CASE Representante
  BY <1>1, QueryRowShape, OnePartIInv DEF Representante
<1>2. CASE DadosPedido
  BY <1>2, QueryRowShape, OnePartIInv DEF DadosPedido
<1>3. CASE Endereco
  <2>1. pc' = "campos" /\ pc # "read" /\ Asking' = Asking /\ UNCHANGED cursor
    BY <1>3 DEF Endereco
  <2> QED
    BY <1>3, <2>1, QueryRowShape, OnePartIInv DEF Endereco
<1> QED
  BY <1>1, <1>2, <1>3

\* The items: also those read before an error are of this moment.
LEMMA ItensIInv ==
  ASSUME IInv, Itens
  PROVE  IInv'
<1> DEFINE v == Version("itens", committed)
<1>1. "itens" \in Parts /\ "itens" \in Tables
  BY DEF Parts, Tables
<1>2. Asking' = Asking /\ UNCHANGED cursor /\ pc # "read" /\ pc' \in {"publish"} \cup Parts
  BY DEF Itens, At, AfterItens, GoTo, Parts
<1>3. faults' \in 0 .. MaxFaults /\ missed' \subseteq Tables
  BY <1>1, FaultShape DEF IInv, Itens
<1>4. Read("itens", v) = [ver |-> v, state |-> "partial"] \/ Read("itens", v) = [ver |-> v, state |-> "whole"]
  BY DEF Read
<1>5. \/ UNCHANGED recurso
      \/ \E state \in {"whole", "partial"} : Fill("itens", [ver |-> v, state |-> state])
  BY <1>4 DEF Itens
<1> QED
  BY <1>1, <1>2, <1>3, <1>5, OnePartIInv

\* The instalments: that there are none is an answer as well.
LEMMA ParcelasIInv ==
  ASSUME IInv, Parcelas
  PROVE  IInv'
<1> DEFINE v == Version("parcelas", committed)
<1>1. "parcelas" \in Parts /\ "parcelas" \in Tables
  BY DEF Parts, Tables
<1>2. Asking' = Asking /\ UNCHANGED cursor /\ pc # "read" /\ pc' \in {"publish"} \cup Parts
  BY DEF Parcelas, At, GoTo
<1>3. faults' \in 0 .. MaxFaults /\ missed' \subseteq Tables
  BY <1>1, FaultShape DEF IInv, Parcelas
<1>4. Read("parcelas", v) = [ver |-> v, state |-> "partial"] \/ Read("parcelas", v) = [ver |-> v, state |-> "whole"]
  BY DEF Read
<1>5. v = 0 => [NoPart EXCEPT !.state = "whole"] = [ver |-> v, state |-> "whole"]
  BY DEF NoPart
<1>6. \/ UNCHANGED recurso
      \/ \E state \in {"whole", "partial"} : Fill("parcelas", [ver |-> v, state |-> state])
  BY <1>4, <1>5 DEF Parcelas
<1> QED
  BY <1>1, <1>2, <1>3, <1>6, OnePartIInv

\* The rows of the custom fields are asked for: their version is of this moment.
LEMMA CamposPersonalizadosIInv ==
  ASSUME IInv, CamposPersonalizados
  PROVE  IInv'
<1>1. "campos" \in Parts /\ "campos" \in Tables
  BY DEF Parts, Tables
<1>2. Asking' = Asking /\ UNCHANGED recurso /\ pc = "campos"
  BY DEF CamposPersonalizados, At
<1>3. CASE GoTo("itens") /\ Fault /\ Miss("campos") /\ UNCHANGED cursor
  BY <1>1, <1>2, <1>3, FaultShape, OnePartIInv DEF GoTo, IInv, Parts
<1>4. CASE /\ GoTo("campo") /\ UNCHANGED <<missed, faults>>
           /\ cursor' = [NoCursor EXCEPT !.ver = Version("campos", committed), !.row = 1]
  <2>1. /\ Version("campos", committed) \in 0 .. committed /\ committed \in Nat
        /\ Version("campos", known) <= Version("campos", committed)
    BY <1>1, <1>2, NowWithin
  <2>2. cursor' = [ver |-> Version("campos", committed), row |-> 1, answers |-> <<>>, state |-> "whole"]
    BY <1>4 DEF NoCursor
  <2>3. cursor' \in CursorType /\ cursor'.ver = Version("campos", committed) /\ cursor'.answers = <<>>
    BY <2>1, <2>2, EmptySeq DEF CursorType
  <2>4. Scanning'
    BY <1>2, <2>1, <2>3, VersionStays DEF Asking, server, Scanning, AnswersFrom
  <2>5. recurso' \in RecursoType /\ faults' \in 0 .. MaxFaults /\ missed' \subseteq Tables
    BY <1>2, <1>4 DEF IInv, TypeOK
  <2>6. AnswersFrom(recurso'.answers, known)
    BY <1>2 DEF IInv, Building
  <2> QED
    BY <1>2, <1>4, <2>1, <2>3, <2>4, <2>5, <2>6, QueryIInv DEF GoTo
<1> QED
  BY <1>3, <1>4 DEF CamposPersonalizados

\* An answer is an answer, and its options are those it was given.
LEMMA FormatCampoShape ==
  ASSUME NEW campo \in CampoRow, NEW titulos \in Nat
  PROVE  /\ FormatCampo(campo, titulos) \in AnswerType
         /\ FormatCampo(campo, titulos).opcoes \in {0, titulos}
BY DEF FormatCampo, AnswerType

\* The row of campos that is due is a row of campos.
LEMMA CampoRowShape ==
  ASSUME IInv, cursor.row \in DOMAIN CampoRows
  PROVE  CampoRows[cursor.row] \in CampoRow
<1>1. ~Gone(cursor.ver)
  BY DEF CampoRows
<1>2. cursor.ver \in 1 .. committed
  BY <1>1, LogShape DEF IInv, TypeOK, Gone
<1>3. log[cursor.ver] \in Transaction
  BY <1>2, LogShape DEF IInv
<1>4. CampoRows = log[cursor.ver].campos /\ log[cursor.ver].campos \in Seq(CampoRow)
  BY <1>1, <1>3 DEF CampoRows, Transaction
<1> HIDE DEF CampoRow, CampoRows
<1> QED
  BY <1>4, ElementOfSeq

\* One row of campos: its options, if it has any, are those of this moment.
LEMMA CampoIInv ==
  ASSUME IInv, Campo
  PROVE  IInv'
<1> DEFINE campo == CampoRows[cursor.row]
           opcoes == Version("opcoes", committed)
<1>1. Asking' = Asking /\ UNCHANGED <<pc, recurso>> /\ pc = "campo"
  BY DEF Campo, At
<1>2. campo \in CampoRow
  BY CampoRowShape DEF Campo
<1>3. "opcoes" \in Tables /\ "campos" \in Tables
  BY DEF Tables, Parts
<1>4. opcoes \in Nat /\ Version("opcoes", known) <= opcoes /\ committed \in Nat
  BY <1>1, <1>3, NowWithin
<1>5. faults' \in 0 .. MaxFaults /\ missed' \subseteq Tables
  BY <1>3, FaultShape DEF IInv, Campo
<1>6. \/ \E state \in {"whole", "partial"} :
            cursor' = [cursor EXCEPT !.row = @ + 1, !.state = state]
      \/ cursor' = [cursor EXCEPT !.row = @ + 1]
      \/ \E titulos \in {0, opcoes} : Answered(FormatCampo(campo, titulos))
  BY DEF Campo
<1> HIDE DEF campo, opcoes
<1>7. /\ cursor' \in CursorType /\ cursor'.ver = cursor.ver
      /\ \/ cursor'.answers = cursor.answers
         \/ \E answer \in AnswerType : /\ cursor'.answers = Append(cursor.answers, answer)
                                       /\ answer.opcoes \in {0, opcoes}
  <2>1. cursor \in CursorType
    BY DEF IInv
  <2>0. cursor.row + 1 \in Nat
    BY <2>1 DEF CursorType
  <2>2. CASE \E titulos \in {0, opcoes} : Answered(FormatCampo(campo, titulos))
    <3>1. PICK titulos \in {0, opcoes} : Answered(FormatCampo(campo, titulos))
      BY <2>2
    <3> DEFINE answer == FormatCampo(campo, titulos)
    <3>2. answer \in AnswerType /\ answer.opcoes \in {0, opcoes}
      BY <1>2, <1>4, FormatCampoShape
    <3> HIDE DEF answer
    <3>3. Append(cursor.answers, answer) \in Seq(AnswerType)
      BY <2>1, <3>2, AppendProperties DEF CursorType
    <3>4. cursor' = [cursor EXCEPT !.row = @ + 1, !.answers = Append(@, answer)]
      BY <3>1 DEF Answered, answer
    <3>5. cursor'.ver = cursor.ver /\ cursor'.answers = Append(cursor.answers, answer)
      BY <2>1, <3>4 DEF CursorType
    <3>6. cursor' = [ver |-> cursor.ver, row |-> cursor.row + 1,
                     answers |-> Append(cursor.answers, answer), state |-> cursor.state]
      BY <2>1, <3>4 DEF CursorType
    <3>7. cursor' \in CursorType
      BY <2>1, <3>3, <2>0, <3>6 DEF CursorType
    <3> QED
      BY <3>2, <3>5, <3>7
  <2>3. CASE \/ \E state \in {"whole", "partial"} :
                  cursor' = [cursor EXCEPT !.row = @ + 1, !.state = state]
             \/ cursor' = [cursor EXCEPT !.row = @ + 1]
    <3>0. \E state \in {"whole", "partial"} :
            cursor' = [ver |-> cursor.ver, row |-> cursor.row + 1,
                       answers |-> cursor.answers, state |-> state]
      BY <2>1, <2>3 DEF CursorType
    <3>1. cursor' \in CursorType
      BY <2>1, <2>0, <3>0 DEF CursorType
    <3>2. cursor'.ver = cursor.ver /\ cursor'.answers = cursor.answers
      BY <2>1, <2>3 DEF CursorType
    <3> QED
      BY <3>1, <3>2
  <2> QED
    BY <1>6, <2>2, <2>3
<1>8. AnswersFrom(cursor'.answers, known)
  <2>1. AnswersFrom(cursor.answers, known) /\ cursor.answers \in Seq(AnswerType)
    BY <1>1 DEF IInv, Scanning, CursorType
  <2>2. CASE cursor'.answers = cursor.answers
    BY <2>1, <2>2
  <2>3. CASE \E answer \in AnswerType : /\ cursor'.answers = Append(cursor.answers, answer)
                                        /\ answer.opcoes \in {0, opcoes}
    <3>1. PICK answer \in AnswerType : /\ cursor'.answers = Append(cursor.answers, answer)
                                      /\ answer.opcoes \in {0, opcoes}
      BY <2>3
    <3>2. ASSUME NEW a \in DOMAIN cursor'.answers, cursor'.answers[a].opcoes # 0
          PROVE  cursor'.answers[a].opcoes >= Version("opcoes", known)
      <4>1. \/ a \in DOMAIN cursor.answers /\ cursor'.answers[a] = cursor.answers[a]
            \/ cursor'.answers[a] = answer
        BY <2>1, <3>1, <3>2, AppendProperties
      <4> QED
        BY <1>4, <2>1, <3>1, <3>2, <4>1 DEF AnswersFrom
    <3> QED
      BY <3>2 DEF AnswersFrom
  <2> QED
    BY <1>7, <2>2, <2>3
<1>9. Scanning'
  BY <1>1, <1>7, <1>8, VersionStays DEF IInv, Scanning, AnswersFrom, Asking, server
<1>10. recurso' \in RecursoType /\ AnswersFrom(recurso'.answers, known) /\ cursor'.ver <= committed
  BY <1>1, <1>4, <1>7 DEF IInv, TypeOK, Building
<1> QED
  BY <1>1, <1>5, <1>7, <1>9, <1>10, QueryIInv

\* The custom fields are complete, or dropped.
LEMMA CamposReadIInv ==
  ASSUME IInv, CamposRead
  PROVE  IInv'
<1>1. Asking' = Asking /\ pc = "campo" /\ pc' = "itens" /\ cursor' = NoCursor
  BY DEF CamposRead, At, GoTo
<1>2. "campos" \in Parts /\ "campos" \in Tables /\ "itens" \in Parts
  BY DEF Parts, Tables
<1>3. faults' \in 0 .. MaxFaults /\ missed' \subseteq Tables
  BY <1>2, FaultShape DEF IInv, CamposRead
<1>4. recurso \in RecursoType /\ cursor \in CursorType /\ committed \in Nat
  BY LogShape DEF IInv, TypeOK
<1>5. cursor' \in CursorType /\ cursor'.ver <= committed
  BY <1>1, <1>4, EmptySeq DEF CursorType, NoCursor
<1>6. Scanning'
  BY <1>1 DEF Scanning
<1>7. CASE UNCHANGED recurso
  <2>1. AnswersFrom(recurso'.answers, known)
    BY <1>1, <1>7 DEF IInv, Building
  <2> QED
    BY <1>1, <1>2, <1>3, <1>4, <1>5, <1>6, <1>7, <2>1, QueryIInv
<1>8. CASE recurso' = [recurso EXCEPT
             !.parts["campos"] = [ver |-> cursor.ver, state |-> cursor.state],
             !.answers = cursor.answers]
  <2> DEFINE part == [ver |-> cursor.ver, state |-> cursor.state]
  <2>1. part \in PartType /\ part.ver = cursor.ver
    BY <1>4 DEF CursorType, PartType
  <2>2. part.ver <= committed /\ PartWithin(part, "campos", known, committed)
    BY <1>1, <1>4, <2>1 DEF IInv, TypeOK, Scanning, PartWithin
  <2> HIDE DEF part
  <2>3. /\ recurso' \in RecursoType /\ recurso'.answers = cursor.answers
        /\ recurso'.parts["campos"] = part
        /\ \A p \in Parts \ {"campos"} : recurso'.parts[p] = recurso.parts[p]
    BY <1>2, <1>4, <1>8, <2>1 DEF RecursoType, CursorType, AnswerType, part
  <2>4. AnswersFrom(recurso'.answers, known)
    BY <1>1, <2>3 DEF IInv, Scanning
  <2> QED
    BY <1>1, <1>2, <1>3, <1>5, <1>6, <2>2, <2>3, <2>4, QueryIInv
<1> QED
  BY <1>7, <1>8 DEF CamposRead

-----------------------------------------------------------------------------
(* The steps around them *)

\* A Recurso and a cursor that hold nothing.
LEMMA EmptyShape ==
  /\ NoRecurso \in RecursoType /\ NoRecurso.answers = <<>>
  /\ \A q \in Parts : NoRecurso.parts[q].ver = 0 /\ NoRecurso.parts[q].state = "default"
  /\ NoCursor \in CursorType /\ NoCursor.ver = 0 /\ NoCursor.row = 0 /\ NoCursor.state = "whole"
<1>1. NoPart \in PartType /\ NoPart.ver = 0 /\ NoPart.state = "default"
  BY DEF NoPart, PartType
<1>2. \A S : <<>> \in Seq(S)
  BY EmptySeq
<1> QED
  BY <1>1, <1>2 DEF NoRecurso, RecursoType, NoCursor, CursorType

\* dataEvento is taken: what was published was read before it, and nothing since.
LEMMA ReadClockIInv ==
  ASSUME IInv, ReadClock
  PROVE  IInv'
<1>1. /\ UNCHANGED <<log, committed, mariadb, saved, next, cursor, published, faults, crashes>>
      /\ pc = "read" /\ next <= committed /\ known' = committed
      /\ recurso' = NoRecurso /\ missed' = {}
      /\ pc' \in {"publish", "representante", "dados"}
  BY DEF ReadClock, At, GoTo, server, bounds
<1>2. committed \in Nat
  BY LogShape DEF IInv
<1>3. TypeOK'
  BY <1>1, <1>2, EmptyShape DEF IInv, TypeOK, Parts
<1>4. Building'
  BY <1>1, EmptyShape DEF Building, PartWithin, AnswersFrom
<1>5. Scanning'
  BY <1>1 DEF Scanning
<1>6. Behind'
  BY <1>1, VersionStays DEF IInv, Behind, Filled
<1> QED
  BY <1>1, <1>3, <1>4, <1>5, <1>6, PublishedStays DEF IInv

\* The Event in hand is published: it reads no less than any before it.
LEMMA PublishIInv ==
  ASSUME IInv, Publish
  PROVE  IInv'
<1> DEFINE p == [n |-> next, known |-> known, recurso |-> recurso,
                 missed |-> missed, enriched |-> mariadb]
<1>1. /\ UNCHANGED <<log, committed, mariadb, saved, known, recurso, cursor, missed, faults, crashes>>
      /\ pc = "publish" /\ pc' = "read" /\ next' = next + 1
      /\ published' = Append(published, p) \/ published' = published
  BY DEF Publish, At, GoTo, server, bounds
<1>2. next <= committed /\ committed \in Nat /\ Len(log) \in Nat /\ committed <= Len(log)
  BY <1>1, LogShape DEF IInv, Building
<1>3. p \in EventType
  BY <1>2 DEF IInv, TypeOK, EventType
<1>4. /\ \A q \in Parts : Filled(p, q) => PartWithin(recurso.parts[q], q, known, committed)
      /\ AnswersFrom(recurso.answers, known) /\ p.recurso = recurso /\ p.known = known
  BY <1>1 DEF IInv, Building
<1> HIDE DEF p
<1>5. published \in Seq(EventType)
  BY DEF IInv, TypeOK, EventType
<1>6. \A q \in Parts : Version(q, known) \in Int
  BY <1>1, NowWithin DEF Tables
<1>7. \A q \in Parts : recurso.parts[q].ver \in Int
  BY PartShape DEF IInv, TypeOK
<1>8. ASSUME published' = Append(published, p)
      PROVE  /\ published' \in Seq(EventType)
             /\ \A k \in DOMAIN published' :
                  \/ k \in DOMAIN published /\ published'[k] = published[k]
                  \/ k = Len(published) + 1 /\ published'[k] = p
             /\ DOMAIN published = 1 .. Len(published) /\ Len(published) \in Nat
  BY <1>3, <1>5, <1>8, AppendProperties
<1>9. TypeOK'
  <2>1. published' \in Seq(EventType)
    BY <1>1, <1>5, <1>8
  <2>2. next' \in saved + 1 .. committed + 1
    BY <1>1, <1>2 DEF IInv, TypeOK
  <2> QED
    BY <1>1, <2>1, <2>2 DEF IInv, TypeOK, EventType
<1>10. Building' /\ Scanning'
  BY <1>1 DEF Building, Scanning
<1>11. Behind'
  <2>1. CASE published' = published
    BY <1>1, <2>1, BehindStays
  <2>2. CASE published' = Append(published, p)
    <3>1. ASSUME NEW k \in DOMAIN published', NEW q \in Parts, Filled(published'[k], q)
          PROVE  published'[k].recurso.parts[q].ver <= Version(q, committed)
      BY <1>4, <1>8, <2>2, <3>1 DEF IInv, Behind, PartWithin, Filled
    <3> QED
      BY <1>1, <3>1, VersionStays DEF Behind, Filled
  <2> QED
    BY <1>1, <2>1, <2>2
<1>12. NotOlderThanDate' /\ LaterReadsNewer'
  <2>1. CASE published' = published
    BY <1>1, <2>1, PublishedStays
  <2>2. CASE published' = Append(published, p)
    <3>1. ASSUME NEW k \in DOMAIN published'
          PROVE  LET e == published'[k] IN
                 /\ \A q \in Parts : Filled(e, q) => e.recurso.parts[q].ver >= Version(q, e.known)
                 /\ AnswersFrom(e.recurso.answers, e.known)
      <4>1. CASE k \in DOMAIN published /\ published'[k] = published[k]
        BY <4>1 DEF IInv, NotOlderThanDate, AnswersFrom
      <4>2. CASE published'[k] = p
        <5>1. \A q \in Parts : Filled(p, q) => Version(q, known) <= recurso.parts[q].ver
          BY <1>4 DEF PartWithin, Filled
        <5>2. \A q \in Parts : Version(q, known) \in Int /\ recurso.parts[q].ver \in Int
          BY <1>6, <1>7
        <5> QED
          BY <1>4, <4>2, <5>1, <5>2
      <4> QED
        BY <1>8, <2>2, <4>1, <4>2
    <3>2. NotOlderThanDate'
      BY <1>1, <3>1, VersionStays DEF NotOlderThanDate, AnswersFrom, Filled
    <3>3. ASSUME NEW j \in DOMAIN published', NEW k \in DOMAIN published', NEW q \in Parts,
                 j < k, Filled(published'[j], q), Filled(published'[k], q)
          PROVE  published'[j].recurso.parts[q].ver <= published'[k].recurso.parts[q].ver
      <4>1. j \in DOMAIN published /\ published'[j] = published[j]
        BY <1>8, <2>2, <3>3
      <4>2. CASE k \in DOMAIN published /\ published'[k] = published[k]
        BY <3>3, <4>1, <4>2 DEF IInv, LaterReadsNewer
      <4>3. CASE published'[k] = p
        <5>1. published[j].recurso.parts[q].ver <= Version(q, known)
          BY <1>1, <3>3, <4>1 DEF IInv, Behind
        <5>2. Version(q, known) <= recurso.parts[q].ver
          BY <1>4, <3>3, <4>3 DEF PartWithin, Filled
        <5>3. Version(q, known) \in Int /\ recurso.parts[q].ver \in Int
          BY <1>6, <1>7
        <5>4. published[j].recurso.parts[q].ver \in Int
          BY <4>1, EventShape, PartShape DEF IInv
        <5> QED
          BY <1>4, <4>1, <4>3, <5>1, <5>2, <5>3, <5>4
      <4> QED
        BY <1>8, <2>2, <4>2, <4>3
    <3>4. LaterReadsNewer'
      BY <3>3 DEF LaterReadsNewer, Filled
    <3> QED
      BY <3>2, <3>4
  <2> QED
    BY <1>1, <2>1, <2>2
<1> QED
  BY <1>1, <1>9, <1>10, <1>11, <1>12 DEF IInv

\* The watcher moves on without an Event, saves its place, or nothing happens.
LEMMA WatcherIInv ==
  ASSUME IInv, NoEvent \/ Save \/ UNCHANGED vars
  PROVE  IInv'
<1>1. UNCHANGED <<log, committed, mariadb, pc, known, recurso, cursor, missed, published, faults, crashes>>
  BY DEF NoEvent, Save, vars, server, bounds
<1>2. /\ saved' \in 0 .. Len(log) /\ next' \in saved' + 1 .. committed + 1
      /\ pc = "read" \/ next' = next
  BY LogShape DEF IInv, TypeOK, NoEvent, Save, At, vars
<1>3. TypeOK'
  BY <1>1, <1>2 DEF IInv, TypeOK
<1>4. Building' /\ Scanning'
  BY <1>1, <1>2, VersionStays DEF IInv, Building, Scanning, PartWithin, AnswersFrom
<1>5. Behind'
  BY <1>1, VersionStays DEF IInv, Behind, Filled
<1> QED
  BY <1>1, <1>3, <1>4, <1>5, PublishedStays DEF IInv

\* The process dies: what was in hand is forgotten.
LEMMA CrashIInv ==
  ASSUME IInv, Crash
  PROVE  IInv'
<1>1. /\ UNCHANGED <<log, committed, mariadb, saved, known, published, faults>>
      /\ next' = saved + 1 /\ pc' = "read" /\ recurso' = NoRecurso /\ cursor' = NoCursor
      /\ missed' = {} /\ crashes' \in 0 .. MaxCrashes
  BY EnricherAssumption DEF Crash, GoTo, server, IInv, TypeOK
<1>2. committed \in Nat /\ next' \in saved + 1 .. committed + 1
  BY <1>1, LogShape DEF IInv, TypeOK
<1>3. TypeOK'
  BY <1>1, <1>2, EmptyShape DEF IInv, TypeOK
<1>4. Building' /\ Scanning'
  BY <1>1 DEF Building, Scanning
<1> QED
  BY <1>1, <1>3, <1>4, EmptyShape, PublishedStays, BehindStays DEF IInv

\* The ERP commits: versions only grow.
LEMMA CommitIInv ==
  ASSUME IInv, Commit
  PROVE  IInv'
<1>1. UNCHANGED <<log, mariadb, saved, next, pc, known, recurso, cursor, missed, published, faults, crashes>>
      /\ committed < Len(log) /\ committed' = committed + 1
  BY DEF Commit, bounds
<1>2. committed \in Nat /\ Len(log) \in Nat /\ committed + 1 \in Nat /\ committed <= committed + 1
  BY LogShape DEF IInv
<1>3. \A q : Version(q, committed) <= Version(q, committed + 1)
  BY <1>2, VersionGrows
<1>4. \A q : Version(q, committed) \in Int /\ Version(q, committed + 1) \in Int
  BY <1>2, VersionShape
<1>5. recurso \in RecursoType /\ cursor.ver \in Int /\ \A q \in Parts : recurso.parts[q].ver \in Int
  BY PartShape DEF IInv, TypeOK, CursorType
<1>6. TypeOK'
  BY <1>1, <1>2, <1>5 DEF IInv, TypeOK
<1>7. Building'
  <2>1. \A q \in Parts : PartWithin(recurso.parts[q], q, known, committed) =>
                           PartWithin(recurso.parts[q], q, known, committed + 1)
    BY <1>3, <1>4, <1>5 DEF PartWithin
  <2>2. next <= committed => next <= committed + 1
    BY <1>2 DEF IInv, TypeOK
  <2> QED
    BY <1>1, <2>1, <2>2, VersionStays DEF IInv, Building, PartWithin, AnswersFrom
<1>8. Scanning'
  <2>1. cursor.ver <= Version("campos", committed) => cursor.ver <= Version("campos", committed + 1)
    BY <1>3, <1>4, <1>5
  <2> QED
    BY <1>1, <2>1, VersionStays DEF IInv, Scanning, AnswersFrom
<1>9. Behind'
  <2>1. ASSUME NEW k \in DOMAIN published, NEW q \in Parts, Filled(published[k], q)
        PROVE  published[k].recurso.parts[q].ver <= Version(q, committed + 1)
    <3>2. published[k].recurso.parts[q].ver \in Int
      BY EventShape, PartShape DEF IInv
    <3>3. published[k].recurso.parts[q].ver <= Version(q, committed)
      BY <2>1 DEF IInv, Behind
    <3> QED
      BY <1>3, <1>4, <3>2, <3>3
  <2> QED
    BY <1>1, <2>1, VersionStays DEF IInv, Behind, Filled
<1> QED
  BY <1>1, <1>6, <1>7, <1>8, <1>9, PublishedStays DEF IInv

-----------------------------------------------------------------------------
(* The theorems *)

\* Every step keeps the invariant.
LEMMA NextIInv ==
  ASSUME IInv, [Next]_vars
  PROVE  IInv'
BY RowQueriesIInv, CamposPersonalizadosIInv, CampoIInv, CamposReadIInv, ItensIInv,
   ParcelasIInv, ReadClockIInv, PublishIInv, WatcherIInv, CrashIInv, CommitIInv
   DEF Next, Finished

\* The invariant holds at all times.
THEOREM Invariant == Spec => []IInv
<1>1. Init => IInv
  BY InitIInv
<1>2. IInv /\ [Next]_vars => IInv'
  BY NextIInv
<1> QED
  BY <1>1, <1>2, PTL DEF Spec

\* The Recurso, the cursor and what was published are well formed at all times, and
\* nothing was read before it was committed.
THEOREM TypeCorrect == Spec => []TypeOK
BY Invariant, PTL DEF IInv

\* Whatever the ERP commits between the queries and whichever of them fail, nothing in
\* a snapshot is older than its dataEvento says.
THEOREM DateIsALowerBound == Spec => []NotOlderThanDate
BY Invariant, PTL DEF IInv

\* Of two snapshots of a pedido the one with the later date never holds an older
\* reading of a part, also when a crash had the producer handle an old change again.
THEOREM LaterDateReadsNewer == Spec => []LaterReadsNewer
BY Invariant, PTL DEF IInv

-----------------------------------------------------------------------------
(* The last Event completes *)

\* The part holds all that MariaDB held of the table at some moment between the
\* transaction of the Event and the c-th, unless it held nothing.
ReadSince(part, q, n, c) ==
  \E d \in n .. c : Gone(Version(q, d)) \/ part = [ver |-> Version(q, d), state |-> "whole"]

\* The parts that were asked for by now.
AskedBefore(at) ==
  CASE at = "representante" -> {}
    [] at = "dados" -> {"representante"}
    [] at = "endereco" -> {"representante", "dados"}
    [] at \in {"campos", "campo"} -> {"representante", "dados", "endereco"}
    [] at = "itens" -> {"representante", "dados", "endereco", "campos"}
    [] at = "parcelas" -> {"representante", "dados", "endereco", "campos", "itens"}
    [] OTHER -> Parts

\* What was asked for by now, for the n-th transaction, is there.
AllRead(parts, n, at, c) ==
  \A q \in AskedBefore(at) : Asked(q, n) => ReadSince(parts[q], q, n, c)

\* While no query has failed, what was asked for is there.
WholeSoFar ==
  pc # "read" =>
    /\ log[next].action # "none"
    /\ log[next].action # "DELETE" /\ mariadb /\ missed = {} =>
         AllRead(recurso.parts, next, pc, committed)

\* And so are the custom fields that are being read.
WholeScan ==
  pc = "campo" /\ missed = {} =>
    /\ cursor.state = "whole"
    /\ \E d \in next .. committed : cursor.ver = Version("campos", d)

\* And what was published.
EventWhole(p, c) ==
  /\ log[p.n].action # "none"
  /\ log[p.n].action # "DELETE" /\ p.enriched /\ p.missed = {} =>
       AllRead(p.recurso.parts, p.n, "publish", c)

WholePublished == \A k \in DOMAIN published : EventWhole(published[k], committed)

Whole == WholeSoFar /\ WholeScan /\ WholePublished

\* The log is fixed, and so is what a reading of it is.
LEMMA ReadingStays ==
  ASSUME UNCHANGED log
  PROVE  /\ \A part, q, n, c : ReadSince(part, q, n, c)' = ReadSince(part, q, n, c)
         /\ \A parts, n, at, c : AllRead(parts, n, at, c)' = AllRead(parts, n, at, c)
         /\ \A p, c : EventWhole(p, c)' = EventWhole(p, c)
<1>1. \A v : Gone(v)' = Gone(v)
  BY DEF Gone
<1>2. \A part, q, n, c : ReadSince(part, q, n, c)' = ReadSince(part, q, n, c)
  BY <1>1, VersionStays DEF ReadSince
<1>3. \A parts, n, at, c : AllRead(parts, n, at, c)' = AllRead(parts, n, at, c)
  BY <1>2 DEF AllRead, Asked
<1>4. \A p, c : EventWhole(p, c)' = EventWhole(p, c)
  BY <1>3 DEF EventWhole
<1> QED
  BY <1>2, <1>3, <1>4

\* A query of the part q, or of a row of it: no other part changes, and q is there
\* once it is among those asked for.
LEMMA QueryWhole ==
  ASSUME IInv, Whole, pc # "read", Asking' = Asking, missed \subseteq missed', WholeScan',
         NEW q \in Parts, \A p \in Parts \ {q} : recurso'.parts[p] = recurso.parts[p],
         pc' # "read",
         \A p \in AskedBefore(pc') :
           p \in Parts /\ (p = q \/ p \in AskedBefore(pc) \/ ~Asked(p, next)),
         missed' = {} /\ q \in AskedBefore(pc') /\ Asked(q, next) =>
           ReadSince(recurso'.parts[q], q, next, committed)
  PROVE  Whole'
<1>1. UNCHANGED <<log, committed, mariadb, next, published>>
  BY DEF Asking, server
<1>2. missed' = {} => missed = {}
  OBVIOUS
<1>3. ASSUME log[next].action # "DELETE", mariadb, missed' = {}
      PROVE  AllRead(recurso'.parts, next, pc', committed)
  <2>1. AllRead(recurso.parts, next, pc, committed)
    BY <1>2, <1>3 DEF Whole, WholeSoFar
  <2>2. SUFFICES ASSUME NEW p \in AskedBefore(pc'), Asked(p, next)
                 PROVE  ReadSince(recurso'.parts[p], p, next, committed)
    BY DEF AllRead
  <2>3. CASE p = q
    BY <1>3, <2>2, <2>3
  <2>4. CASE p # q
    BY <2>1, <2>2, <2>4 DEF AllRead
  <2> QED
    BY <2>3, <2>4
<1>4. WholeSoFar'
  BY <1>1, <1>3, ReadingStays DEF Whole, WholeSoFar
<1>5. WholePublished'
  BY <1>1, ReadingStays DEF Whole, WholePublished
<1> QED
  BY <1>4, <1>5 DEF Whole

\* What a query without failure makes of its part is what MariaDB holds now.
LEMMA ReadNow ==
  ASSUME IInv, pc # "read", NEW q \in Parts, NEW part,
         Gone(Version(q, committed)) \/ part = [ver |-> Version(q, committed), state |-> "whole"]
  PROVE  ReadSince(part, q, next, committed)
<1>1. committed \in next .. committed
  BY LogShape DEF IInv, Building, TypeOK
<1> QED
  BY <1>1 DEF ReadSince

\* A query of one row.
LEMMA QueryRowWhole ==
  ASSUME IInv, NEW q \in Parts, NEW v, QueryRow(q, v)
  PROVE  /\ missed \subseteq missed'
         /\ \A p \in Parts \ {q} : recurso'.parts[p] = recurso.parts[p]
         /\ missed' = {} => Gone(v) \/ recurso'.parts[q] = [ver |-> v, state |-> "whole"]
<1>1. recurso \in RecursoType
  BY DEF IInv, TypeOK
<1>2. missed \subseteq missed'
  BY DEF QueryRow, Miss
<1>3. CASE ~Gone(v) /\ q \notin log[v].nulls /\ Fill(q, Read(q, v))
  <2>1. /\ recurso'.parts[q] = Read(q, v)
        /\ \A p \in Parts \ {q} : recurso'.parts[p] = recurso.parts[p]
    BY <1>1, <1>3 DEF Fill, RecursoType
  <2> QED
    BY <1>2, <1>3, <2>1 DEF Read
<1>4. CASE UNCHANGED recurso /\ (Gone(v) \/ Miss(q))
  BY <1>2, <1>4 DEF Miss
<1> QED
  BY <1>3, <1>4 DEF QueryRow

LEMMA RowQueriesWhole ==
  ASSUME IInv, Whole, Representante \/ DadosPedido \/ Endereco
  PROVE  Whole'
<1>1. WholeScan'
  BY DEF WholeScan, Representante, DadosPedido, Endereco, GoTo
<1>2. ASSUME NEW q \in Parts, pc # "read", pc' \in {"dados", "endereco", "campos"}, Asking' = Asking,
             QueryRow(q, Version(q, committed)), AskedBefore(pc') = AskedBefore(pc) \cup {q}
      PROVE  Whole'
  <2>1. /\ missed \subseteq missed'
        /\ \A p \in Parts \ {q} : recurso'.parts[p] = recurso.parts[p]
        /\ missed' = {} => \/ Gone(Version(q, committed))
                           \/ recurso'.parts[q] = [ver |-> Version(q, committed), state |-> "whole"]
    BY <1>2, QueryRowWhole
  <2>2. missed' = {} => ReadSince(recurso'.parts[q], q, next, committed)
    BY <1>2, <2>1, ReadNow
  <2>3. AskedBefore(pc') \subseteq Parts
    BY <1>2 DEF AskedBefore, Parts
  <2> QED
    BY <1>1, <1>2, <2>1, <2>2, <2>3, QueryWhole
<1>3. CASE Representante
  <2>1. pc = "representante" /\ pc' = "dados" /\ Asking' = Asking /\ "representante" \in Parts
        /\ QueryRow("representante", Version("representante", committed))
    BY <1>3 DEF Representante, At, GoTo, Parts
  <2> QED
    BY <1>2, <2>1 DEF AskedBefore
<1>4. CASE DadosPedido
  <2>1. pc = "dados" /\ pc' = "endereco" /\ Asking' = Asking /\ "dados" \in Parts
        /\ QueryRow("dados", Version("dados", committed))
    BY <1>4 DEF DadosPedido, At, GoTo, Parts
  <2> QED
    BY <1>2, <2>1 DEF AskedBefore
<1>5. CASE Endereco
  <2>1. pc = "endereco" /\ pc' = "campos" /\ Asking' = Asking /\ "endereco" \in Parts
        /\ QueryRow("endereco", Version("endereco", committed))
    BY <1>5 DEF Endereco, At, GoTo, Parts
  <2> QED
    BY <1>2, <2>1 DEF AskedBefore
<1> QED
  BY <1>3, <1>4, <1>5

\* The custom fields: no part is asked for before their last row is read.
LEMMA CamposWhole ==
  ASSUME IInv, Whole, CamposPersonalizados \/ Campo
  PROVE  Whole'
<1>1. /\ pc # "read" /\ pc \in {"campos", "campo"} /\ pc' \in {"campo", "itens"}
      /\ Asking' = Asking /\ UNCHANGED recurso /\ missed \subseteq missed'
      /\ pc' = "itens" => "campos" \in missed'
  BY DEF CamposPersonalizados, Campo, At, GoTo, Miss
<1>2. WholeScan'
  <2>1. UNCHANGED <<log, committed, next>>
    BY <1>1 DEF Asking, server
  <2>2. ASSUME pc' = "campo", missed' = {}
        PROVE  cursor'.state = "whole" /\ \E d \in next .. committed : cursor'.ver = Version("campos", d)
    <3>1. CASE CamposPersonalizados
      <4>1. cursor' = [NoCursor EXCEPT !.ver = Version("campos", committed), !.row = 1]
        BY <2>2, <3>1 DEF CamposPersonalizados, GoTo
      <4>2. cursor'.state = "whole" /\ cursor'.ver = Version("campos", committed)
        BY <4>1 DEF NoCursor
      <4>3. committed \in next .. committed
        BY <1>1, LogShape DEF IInv, Building, TypeOK
      <4> QED
        BY <4>2, <4>3
    <3>2. CASE Campo
      <4>1. /\ cursor.state = "whole"
            /\ \E d \in next .. committed : cursor.ver = Version("campos", d)
        BY <1>1, <2>2, <3>2 DEF Whole, WholeScan, Campo, At
      <4>2. \/ cursor' = [cursor EXCEPT !.row = @ + 1]
            \/ \E answer : Answered(answer)
        BY <2>2, <3>2 DEF Campo, Miss
      <4>3. cursor'.state = cursor.state /\ cursor'.ver = cursor.ver
        BY <4>2 DEF IInv, CursorType, Answered
      <4> QED
        BY <4>1, <4>3
    <3> QED
      BY <3>1, <3>2
  <2>3. \A d : Version("campos", d)' = Version("campos", d)
    BY <2>1, VersionStays
  <2> QED
    BY <2>1, <2>2, <2>3 DEF WholeScan
<1>3. \A p \in AskedBefore(pc') : p \in Parts /\ (p = "campos" \/ p \in AskedBefore(pc))
  BY <1>1 DEF AskedBefore, Parts
<1>4. missed' = {} => "campos" \notin AskedBefore(pc')
  BY <1>1 DEF AskedBefore
<1>5. "campos" \in Parts /\ pc' # "read"
  BY <1>1 DEF Parts
<1> QED
  BY <1>1, <1>2, <1>3, <1>4, <1>5, QueryWhole

LEMMA CamposReadWhole ==
  ASSUME IInv, Whole, CamposRead
  PROVE  Whole'
<1>1. /\ pc = "campo" /\ pc' = "itens" /\ Asking' = Asking /\ missed \subseteq missed'
      /\ "campos" \in Parts
  BY DEF CamposRead, At, GoTo, Miss, Parts
<1>2. WholeScan'
  BY <1>1 DEF WholeScan
<1>3. \A p \in AskedBefore(pc') : p \in Parts /\ (p = "campos" \/ p \in AskedBefore(pc))
  BY <1>1 DEF AskedBefore, Parts
<1>4. /\ \A p \in Parts \ {"campos"} : recurso'.parts[p] = recurso.parts[p]
      /\ missed' = {} => recurso'.parts["campos"] = [ver |-> cursor.ver, state |-> cursor.state]
  BY <1>1 DEF CamposRead, Miss, IInv, TypeOK, RecursoType
<1>5. missed' = {} => ReadSince(recurso'.parts["campos"], "campos", next, committed)
  BY <1>1, <1>4 DEF Whole, WholeScan, ReadSince
<1> QED
  BY <1>1, <1>2, <1>3, <1>4, <1>5, QueryWhole

\* The items and the instalments.
LEMMA ItensWhole ==
  ASSUME IInv, Whole, Itens
  PROVE  Whole'
<1> DEFINE v == Version("itens", committed)
<1>1. /\ pc = "itens" /\ pc' \in {"parcelas", "publish"} /\ Asking' = Asking
      /\ pc' = "publish" => ~log[next].condicao
      /\ missed \subseteq missed' /\ "itens" \in Parts
  BY DEF Itens, At, GoTo, AfterItens, Miss, Parts
<1>2. WholeScan'
  BY <1>1 DEF WholeScan
<1>3. \A p \in AskedBefore(pc') :
        p \in Parts /\ (p = "itens" \/ p \in AskedBefore(pc) \/ ~Asked(p, next))
  BY <1>1 DEF AskedBefore, Parts, Asked
<1>4. \/ UNCHANGED recurso
      \/ \E part \in PartType : Fill("itens", part)
  <2>1. v \in Nat
    BY <1>1, NowWithin DEF Tables
  <2> HIDE DEF v
  <2>2. Read("itens", v) \in PartType /\ [ver |-> v, state |-> "partial"] \in PartType
    BY <2>1 DEF Read, PartType
  <2> QED
    BY <2>2 DEF Itens, v
<1>5. \A p \in Parts \ {"itens"} : recurso'.parts[p] = recurso.parts[p]
  BY <1>1, <1>4, FillShape DEF IInv, TypeOK
<1>6. missed' = {} => Gone(v) \/ recurso'.parts["itens"] = [ver |-> v, state |-> "whole"]
  <2>1. SUFFICES ASSUME missed' = {}, ~Gone(v) PROVE recurso'.parts["itens"] = [ver |-> v, state |-> "whole"]
    OBVIOUS
  <2>2. Fill("itens", Read("itens", v)) /\ "itens" \notin log[v].nulls
    BY <2>1 DEF Itens, Miss
  <2> QED
    BY <1>1, <2>2 DEF Fill, Read, IInv, TypeOK, RecursoType
<1> HIDE DEF v
<1>7. missed' = {} => ReadSince(recurso'.parts["itens"], "itens", next, committed)
  BY <1>1, <1>6, ReadNow DEF v
<1> QED
  BY <1>1, <1>2, <1>3, <1>5, <1>7, QueryWhole

LEMMA ParcelasWhole ==
  ASSUME IInv, Whole, Parcelas
  PROVE  Whole'
<1> DEFINE v == Version("parcelas", committed)
           part == IF v = 0 THEN [NoPart EXCEPT !.state = "whole"] ELSE Read("parcelas", v)
<1>1. /\ pc = "parcelas" /\ pc' = "publish" /\ Asking' = Asking
      /\ missed \subseteq missed' /\ "parcelas" \in Parts
  BY DEF Parcelas, At, GoTo, Miss, Parts
<1>2. WholeScan'
  BY <1>1 DEF WholeScan
<1>3. \A p \in AskedBefore(pc') : p \in Parts /\ (p = "parcelas" \/ p \in AskedBefore(pc))
  BY <1>1 DEF AskedBefore, Parts
<1>4. part \in PartType
  <2>1. v \in Nat
    BY <1>1, NowWithin DEF Tables
  <2> QED
    BY <2>1 DEF Read, PartType, NoPart
<1>5. UNCHANGED recurso \/ Fill("parcelas", part)
  BY DEF Parcelas
<1>6. missed' = {} => Fill("parcelas", part) /\ (v = 0 \/ part = [ver |-> v, state |-> "whole"])
  BY DEF Parcelas, Miss, Read
<1> HIDE DEF part
<1>7. /\ \A p \in Parts \ {"parcelas"} : recurso'.parts[p] = recurso.parts[p]
      /\ Fill("parcelas", part) => recurso'.parts["parcelas"] = part
  BY <1>1, <1>4, <1>5, FillShape DEF IInv, TypeOK
<1>8. missed' = {} => Gone(v) \/ recurso'.parts["parcelas"] = [ver |-> v, state |-> "whole"]
  BY <1>6, <1>7 DEF Gone
<1> HIDE DEF v
<1>9. missed' = {} => ReadSince(recurso'.parts["parcelas"], "parcelas", next, committed)
  BY <1>1, <1>8, ReadNow DEF v
<1> QED
  BY <1>1, <1>2, <1>3, <1>7, <1>9, QueryWhole

\* The steps around the queries.
LEMMA ReadClockWhole ==
  ASSUME IInv, Whole, ReadClock
  PROVE  Whole'
<1>1. /\ UNCHANGED <<log, committed, mariadb, next, published>>
      /\ log[next].action # "none" /\ pc' \in {"publish", "representante", "dados"}
      /\ pc' = "publish" => log[next].action = "DELETE" \/ ~mariadb
      /\ pc' = "dados" => log[next].vendedor = ""
  BY DEF ReadClock, GoTo, server
<1>2. pc' # "publish" => AllRead(recurso'.parts, next, pc', committed)
  BY <1>1 DEF AllRead, AskedBefore, Asked
<1>3. WholeSoFar'
  BY <1>1, <1>2, ReadingStays DEF WholeSoFar
<1>4. WholePublished'
  BY <1>1, ReadingStays DEF Whole, WholePublished
<1>5. WholeScan'
  BY <1>1 DEF WholeScan
<1> QED
  BY <1>3, <1>4, <1>5 DEF Whole

LEMMA PublishWhole ==
  ASSUME IInv, Whole, Publish
  PROVE  Whole'
<1> DEFINE p == [n |-> next, known |-> known, recurso |-> recurso,
                 missed |-> missed, enriched |-> mariadb]
<1>1. /\ UNCHANGED <<log, committed, mariadb>> /\ pc = "publish" /\ pc' = "read"
      /\ published' = Append(published, p) \/ published' = published
  BY DEF Publish, At, GoTo, server
<1>2. EventWhole(p, committed)
  BY <1>1 DEF Whole, WholeSoFar, EventWhole
<1> HIDE DEF p
<1>3. published \in Seq(EventType)
  BY DEF IInv, TypeOK, EventType
<1>4. \A k \in DOMAIN published' :
         \/ k \in DOMAIN published /\ published'[k] = published[k]
         \/ published'[k] = p
  BY <1>1, <1>3, AppendProperties
<1>5. WholePublished'
  BY <1>1, <1>2, <1>4, ReadingStays DEF Whole, WholePublished
<1> QED
  BY <1>1, <1>5 DEF Whole, WholeSoFar, WholeScan

LEMMA OtherWhole ==
  ASSUME IInv, Whole, NoEvent \/ Save \/ Crash \/ UNCHANGED vars
  PROVE  Whole'
<1>1. UNCHANGED <<log, committed, published>>
  BY DEF NoEvent, Save, Crash, vars, server
<1>2. WholePublished'
  BY <1>1, ReadingStays DEF Whole, WholePublished
<1>3. CASE pc' = "read"
  BY <1>2, <1>3 DEF Whole, WholeSoFar, WholeScan
<1>4. CASE pc' # "read"
  <2>1. UNCHANGED <<next, pc, recurso, cursor, missed, mariadb>>
    BY <1>4 DEF NoEvent, Save, Crash, vars, server, At, GoTo
  <2>2. WholeSoFar'
    BY <1>1, <2>1, ReadingStays DEF Whole, WholeSoFar
  <2>3. WholeScan'
    BY <1>1, <2>1, VersionStays DEF Whole, WholeScan
  <2> QED
    BY <1>2, <2>2, <2>3 DEF Whole
<1> QED
  BY <1>3, <1>4

LEMMA CommitWhole ==
  ASSUME IInv, Whole, Commit
  PROVE  Whole'
<1>1. UNCHANGED <<log, mariadb, next, pc, recurso, cursor, missed, published>>
      /\ committed' = committed + 1 /\ committed \in Nat /\ next \in Nat
  BY LogShape DEF Commit, IInv, TypeOK
<1>2. ASSUME NEW part, NEW q, NEW n, ReadSince(part, q, n, committed)
      PROVE  ReadSince(part, q, n, committed + 1)
  <2>1. PICK d \in n .. committed : Gone(Version(q, d)) \/ part = [ver |-> Version(q, d), state |-> "whole"]
    BY <1>2 DEF ReadSince
  <2>2. d \in n .. committed + 1
    BY <1>1
  <2> QED
    BY <2>1, <2>2 DEF ReadSince
<1>3. \A parts, n, at : AllRead(parts, n, at, committed) => AllRead(parts, n, at, committed + 1)
  BY <1>2 DEF AllRead
<1>4. \A p : EventWhole(p, committed) => EventWhole(p, committed + 1)
  BY <1>3 DEF EventWhole
<1>5. WholeSoFar'
  BY <1>1, <1>3, ReadingStays DEF Whole, WholeSoFar
<1>6. WholeScan'
  <2>1. \A d \in next .. committed : d \in next .. committed + 1
    BY <1>1
  <2> QED
    BY <1>1, <2>1, VersionStays DEF Whole, WholeScan
<1>7. WholePublished'
  BY <1>1, <1>4, ReadingStays DEF Whole, WholePublished
<1> QED
  BY <1>5, <1>6, <1>7 DEF Whole

LEMMA NextWhole ==
  ASSUME IInv, Whole, [Next]_vars
  PROVE  Whole'
BY RowQueriesWhole, CamposWhole, CamposReadWhole, ItensWhole, ParcelasWhole,
   ReadClockWhole, PublishWhole, OtherWhole, CommitWhole DEF Next, Finished

\* Once the last change of the row is committed no part changes any more.
LEMMA VersionSettles ==
  ASSUME TypeOK, RowChangedLast, NEW q \in Parts, NEW n \in 1 .. Len(log), n = LastChange,
         NEW d \in n .. Len(log)
  PROVE  Version(q, d) = Version(q, Len(log))
<1>1. Len(log) \in Nat /\ d \in Nat /\ d <= Len(log) /\ n \in Nat
  BY LogShape
<1>2. Version(q, d) <= Version(q, Len(log))
  BY <1>1, VersionGrows
<1>3. /\ Version(q, d) \in 0 .. d /\ Version(q, Len(log)) \in 0 .. Len(log)
      /\ Version(q, Len(log)) = 0 \/ q \in log[Version(q, Len(log))].writes
      /\ \A m \in 1 .. d : q \in log[m].writes => m <= Version(q, d)
  BY <1>1, VersionShape
<1>4. Version(q, Len(log)) <= Version(q, d)
  <2>1. CASE Version(q, Len(log)) = 0
    BY <1>3, <2>1
  <2>2. CASE Version(q, Len(log)) # 0
    <3>1. Version(q, Len(log)) \notin n + 1 .. Len(log)
      BY <1>3, <2>2 DEF RowChangedLast
    <3>2. Version(q, Len(log)) \in 1 .. d
      BY <1>1, <1>3, <2>2, <3>1
    <3> QED
      BY <1>3, <2>2, <3>2
  <2> QED
    BY <2>1, <2>2
<1> QED
  BY <1>2, <1>3, <1>4

\* What was read since the last change is what MariaDB holds in the end.
LEMMA WholeIsComplete ==
  ASSUME IInv, Whole
  PROVE  CompletedByNext
<1> SUFFICES ASSUME RowChangedLast, published # <<>>,
                    NEW p, p = published[Len(published)],
                    p.n = LastChange, log[p.n].action # "DELETE", p.enriched, p.missed = {},
                    NEW q \in Parts, Asked(q, p.n), ~Gone(Version(q, Len(log)))
             PROVE  p.recurso.parts[q] = [ver |-> Version(q, Len(log)), state |-> "whole"]
  BY DEF CompletedByNext, Complete
<1>1. published \in Seq(EventType) /\ Len(published) \in DOMAIN published
  BY DEF IInv, TypeOK, EventType
<1>2. p.n \in 1 .. Len(log)
  <2>1. p \in EventType
    <3> HIDE DEF EventType
    <3> QED
      BY <1>1, ElementOfSeq
  <2> QED
    BY <2>1 DEF EventType
<1>3. ReadSince(p.recurso.parts[q], q, p.n, committed)
  <2>1. AllRead(p.recurso.parts, p.n, "publish", committed)
    BY <1>1 DEF Whole, WholePublished, EventWhole
  <2> QED
    BY <2>1 DEF AllRead, AskedBefore
<1>4. PICK d \in p.n .. committed :
        Gone(Version(q, d)) \/ p.recurso.parts[q] = [ver |-> Version(q, d), state |-> "whole"]
  BY <1>3 DEF ReadSince
<1>5. d \in p.n .. Len(log)
  BY <1>2, LogShape DEF IInv
<1>6. Version(q, d) = Version(q, Len(log))
  BY <1>2, <1>5, VersionSettles DEF IInv
<1> QED
  BY <1>4, <1>6

\* "O Evento seguinte do Recurso o completa" (GLOSSARY.md): whatever the ERP commits
\* between the queries of an Event, whichever Events were torn, failed or repeated
\* before it, the last one holds all that MariaDB holds if its own queries did not fail.
THEOREM LastEventCompletes == Spec => []CompletedByNext
<1>1. Init => Whole
  BY DEF Init, Whole, WholeSoFar, WholeScan, WholePublished
<1>2. IInv /\ Whole /\ [Next]_vars => Whole'
  BY NextWhole
<1>3. IInv /\ Whole => CompletedByNext
  BY WholeIsComplete
<1> QED
  BY <1>1, <1>2, <1>3, Invariant, PTL DEF Spec
=============================================================================
