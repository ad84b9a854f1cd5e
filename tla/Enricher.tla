------------------------------ MODULE Enricher ------------------------------
(***************************************************************************)
(* How the Recurso of a pedido is put together (tables/pedido): the cover  *)
(* comes from the row of the binlog, the other parts from one query each,  *)
(* with no transaction around them, while the ERP commits.  A query that   *)
(* fails leaves its part as it was, and what was built is published all    *)
(* the same.  The rows of other pedidos, the fan-out and Redis are module  *)
(* Producer; here an Event is published as soon as it is built.            *)
(***************************************************************************)
EXTENDS Integers, Sequences, FiniteSets

CONSTANTS
  Logs,       \* what the ERP may do to one pedido: sequences of transactions
  MaxFaults,  \* bound: queries that fail
  MaxCrashes  \* bound: crashes of the producer

\* What Enrich asks for, a query each, and the options of the custom fields.
Parts == {"representante", "dados", "endereco", "campos", "itens", "parcelas"}
Tables == Parts \cup {"opcoes"}

\* A row of campos_personalizados_respostas: Scan refuses a NULL in it, its submodule is
\* on no page of the Recurso, its number is NaN, it is a box of options, or none of these.
CampoRow == {"refused", "unknown", "NaN", "box", "plain"}

\* A transaction: what it does to the row of pedidos, the parts it changes, and whom
\* the pedido is sold by, how it is paid and its custom fields from then on.
Transaction ==
  [action : {"INSERT", "UPDATE", "DELETE", "none"}, writes : SUBSET Tables,
   vendedor : {"", "usuario", "representante"}, condicao : BOOLEAN,
   campos : Seq(CampoRow), nulls : SUBSET Parts]

ASSUME EnricherAssumption ==
  /\ \A log \in Logs : log \in Seq(Transaction)
  /\ MaxFaults \in Nat /\ MaxCrashes \in Nat

VARIABLES
  log,       \* the transactions
  committed, \* how many of them MariaDB has committed
  mariadb,   \* sql.Open took the settings of the server
  saved,     \* transactions a restart of the producer skips
  next,      \* the transaction whose row event is handled now or next
  pc,        \* "read", the query that is due, "campo" in the rows of campos, or "publish"
  known,     \* history: transactions committed when dataEvento was read
  recurso,   \* the PedidoRecurso being built, part by part
  cursor,    \* the rows of campos: version, row that is due, answers so far, all scanned
  missed,    \* history: the queries of this Event that failed, or Scan refused
  published, \* the Events in the order of their dataEvento
  faults, crashes

server == <<log, committed, mariadb>>
bounds == <<faults, crashes>>
vars == <<server, saved, next, pc, known, recurso, cursor, missed, published, bounds>>

-----------------------------------------------------------------------------
(* MariaDB *)

\* The transaction that gave t the contents it has after c of them.
Version(t, c) ==
  LET writers == {n \in 1 .. c : t \in log[n].writes}
  IN IF writers = {} THEN 0 ELSE CHOOSE n \in writers : \A m \in writers : m <= n

\* No rows: they were never written, or went with the pedido.
Gone(v) == v = 0 \/ log[v].action = "DELETE"

-----------------------------------------------------------------------------
(* The Recurso *)

NoPart == [ver |-> 0, state |-> "default"]

\* A part read now, but for the rows that Scan refused.
Read(q, v) == [ver |-> v, state |-> IF q \in log[v].nulls THEN "partial" ELSE "whole"]

\* parsePedidoRecursoFromRow: the parts have their zero values.
NoRecurso == [parts |-> [q \in Parts |-> NoPart], answers |-> <<>>]

\* formatCampoPersonalizadoValor: a value is told by what matters of it, the titles of
\* options by their version, and that json.Marshal refuses a NaN, which ParseFloat takes
\* for a number.
FormatCampo(campo, titulos) ==
  [opcoes |-> IF campo = "box" THEN titulos ELSE 0, nan |-> campo = "NaN"]

NoCursor == [ver |-> 0, row |-> 0, answers |-> <<>>, state |-> "whole"]

Init ==
  /\ log \in Logs /\ committed = 0 /\ mariadb \in BOOLEAN
  /\ saved = 0 /\ next = 1 /\ pc = "read" /\ known = 0
  /\ recurso = NoRecurso /\ cursor = NoCursor /\ missed = {}
  /\ published = <<>>
  /\ faults = 0 /\ crashes = 0

-----------------------------------------------------------------------------
(* The producer *)

At(p) == pc = p
GoTo(p) == pc' = p

\* A transaction that leaves the row of pedidos alone is no Event.
NoEvent ==
  /\ At("read") /\ next <= committed /\ log[next].action = "none"
  /\ next' = next + 1
  /\ UNCHANGED <<server, saved, pc, known, recurso, cursor, missed, published, bounds>>

\* dataEvento is read, then Process builds the cover from the row.  A removed row, or
\* a server without connection, is not enriched.
ReadClock ==
  /\ At("read") /\ next <= committed /\ log[next].action # "none"
  /\ known' = committed
  /\ recurso' = NoRecurso /\ missed' = {}
  /\ GoTo(IF log[next].action = "DELETE" \/ ~mariadb THEN "publish"
          ELSE IF log[next].vendedor # "" THEN "representante" ELSE "dados")
  /\ UNCHANGED <<server, saved, next, cursor, published, bounds>>

Asking == <<server, saved, next, known, published, crashes>>

Fill(q, part) == recurso' = [recurso EXCEPT !.parts[q] = part]
Fault == faults < MaxFaults /\ faults' = faults + 1
Miss(q) == missed' = missed \cup {q}

\* A query of one row: without rows, with a NULL that Scan refuses, or after an error
\* the part stays as it was.
QueryRow(q, v) ==
  \/ /\ IF Gone(v) \/ q \in log[v].nulls THEN UNCHANGED recurso ELSE Fill(q, Read(q, v))
     /\ IF ~Gone(v) /\ q \in log[v].nulls THEN Miss(q) ELSE UNCHANGED missed
     /\ UNCHANGED faults
  \/ Fault /\ Miss(q) /\ UNCHANGED recurso

\* Fault to try on Representante: only users of tipo 2 are looked for.
RepresentanteTipo2 ==
  /\ At("representante") /\ GoTo("dados")
  /\ QueryRow("representante",
       IF log[next].vendedor = "representante" THEN Version("representante", committed) ELSE 0)
  /\ UNCHANGED <<Asking, cursor>>

\* The seller, user or representative alike.
Representante ==
  /\ At("representante") /\ GoTo("dados")
  /\ QueryRow("representante", Version("representante", committed))
  /\ UNCHANGED <<Asking, cursor>>

\* Fault to try on DadosPedido: one transaction for the row event and its queries, which
\* sees the pedido as it was then.
DadosPedidoOfRow ==
  /\ At("dados") /\ GoTo("endereco")
  /\ QueryRow("dados", Version("dados", next))
  /\ UNCHANGED <<Asking, cursor>>

\* enrichDadosPedido.
DadosPedido ==
  /\ At("dados") /\ GoTo("endereco")
  /\ QueryRow("dados", Version("dados", committed))
  /\ UNCHANGED <<Asking, cursor>>

\* enrichEndereco.
Endereco ==
  /\ At("endereco") /\ GoTo("campos")
  /\ QueryRow("endereco", Version("endereco", committed))
  /\ UNCHANGED <<Asking, cursor>>

\* enrichCamposPersonalizados: the rows are those of one moment ...
CamposPersonalizados ==
  /\ At("campos")
  /\ \/ /\ GoTo("campo") /\ UNCHANGED <<missed, faults>>
        /\ cursor' = [NoCursor EXCEPT !.ver = Version("campos", committed), !.row = 1]
     \/ GoTo("itens") /\ Fault /\ Miss("campos") /\ UNCHANGED cursor
  /\ UNCHANGED <<Asking, recurso>>

CampoRows == IF Gone(cursor.ver) THEN <<>> ELSE log[cursor.ver].campos

\* A row is answered, or left out.
Answered(answer) == cursor' = [cursor EXCEPT !.row = @ + 1, !.answers = Append(@, answer)]

\* ... the options of a box are asked for row by row, as they are by then: without
\* them its answer is empty.
Campo ==
  /\ At("campo") /\ cursor.row \in DOMAIN CampoRows
  /\ LET campo == CampoRows[cursor.row] IN
     \/ /\ campo = "refused" /\ Miss("campos") /\ UNCHANGED faults
        /\ cursor' = [cursor EXCEPT !.row = @ + 1, !.state = "partial"]
     \/ /\ campo = "unknown" /\ UNCHANGED <<missed, faults>>
        /\ cursor' = [cursor EXCEPT !.row = @ + 1]
     \/ /\ campo \in {"plain", "NaN"} /\ Answered(FormatCampo(campo, 0))
        /\ UNCHANGED <<missed, faults>>
     \/ /\ campo = "box" /\ Answered(FormatCampo(campo, Version("opcoes", committed)))
        /\ UNCHANGED <<missed, faults>>
     \/ campo = "box" /\ Answered(FormatCampo(campo, 0)) /\ Fault /\ Miss("opcoes")
  /\ UNCHANGED <<Asking, pc, recurso>>

\* An error in the middle of the rows drops them all.
CamposRead ==
  /\ At("campo") /\ cursor.row \notin DOMAIN CampoRows /\ GoTo("itens")
  /\ \/ /\ recurso' = [recurso EXCEPT
             !.parts["campos"] = [ver |-> cursor.ver, state |-> cursor.state],
             !.answers = cursor.answers]
        /\ UNCHANGED <<missed, faults>>
     \/ Fault /\ Miss("campos") /\ UNCHANGED recurso
  /\ cursor' = NoCursor
  /\ UNCHANGED Asking

AfterItens == GoTo(IF log[next].condicao THEN "parcelas" ELSE "publish")

\* enrichItens: an item that Scan refuses is left out, and an error in the middle keeps
\* the items read so far.
Itens ==
  /\ At("itens") /\ AfterItens
  /\ LET v == Version("itens", committed) IN
     \/ /\ IF Gone(v) THEN UNCHANGED recurso ELSE Fill("itens", Read("itens", v))
        /\ IF ~Gone(v) /\ "itens" \in log[v].nulls THEN Miss("itens") ELSE UNCHANGED missed
        /\ UNCHANGED faults
     \/ Fault /\ Miss("itens") /\ UNCHANGED recurso
     \/ Fault /\ Miss("itens") /\ ~Gone(v) /\ Fill("itens", [ver |-> v, state |-> "partial"])
  /\ UNCHANGED <<Asking, cursor>>

\* enrichParcelas, of the condition in the row: an error in the middle drops them all.
Parcelas ==
  /\ At("parcelas") /\ GoTo("publish")
  /\ LET v == Version("parcelas", committed) IN
     \/ /\ Fill("parcelas", IF v = 0 THEN [NoPart EXCEPT !.state = "whole"] ELSE Read("parcelas", v))
        /\ IF v # 0 /\ "parcelas" \in log[v].nulls THEN Miss("parcelas") ELSE UNCHANGED missed
        /\ UNCHANGED faults
     \/ Fault /\ Miss("parcelas") /\ UNCHANGED recurso
  /\ UNCHANGED <<Asking, cursor>>

Serialisable == \A k \in DOMAIN recurso.answers : ~recurso.answers[k].nan

\* Fault to try on Publish: the date is read when the Event is emitted.
PublishDatedLast ==
  /\ At("publish") /\ GoTo("read") /\ next' = next + 1
  /\ published' = IF Serialisable
                    THEN Append(published, [n |-> next, known |-> committed, recurso |-> recurso,
                                            missed |-> missed, enriched |-> mariadb])
                    ELSE published
  /\ UNCHANGED <<server, saved, known, recurso, cursor, missed, bounds>>

\* json.Marshal refuses a NaN, and the Event is given up; otherwise it is published
\* with the date read before everything else.
Publish ==
  /\ At("publish") /\ GoTo("read") /\ next' = next + 1
  /\ published' = IF Serialisable
                    THEN Append(published, [n |-> next, known |-> known, recurso |-> recurso,
                                            missed |-> missed, enriched |-> mariadb])
                    ELSE published
  /\ UNCHANGED <<server, saved, known, recurso, cursor, missed, bounds>>

\* Fault to try on Save: the place is persisted before the event is handled.
SaveBefore ==
  /\ At("read") /\ next <= committed /\ saved < next /\ saved' = next
  /\ UNCHANGED <<server, next, pc, known, recurso, cursor, missed, published, bounds>>

\* The watcher persists a place it has been through.
Save ==
  /\ At("read") /\ saved < next - 1 /\ saved' = next - 1
  /\ UNCHANGED <<server, next, pc, known, recurso, cursor, missed, published, bounds>>

\* The process dies, and its next life starts after the saved place.
Crash ==
  /\ crashes < MaxCrashes /\ crashes' = crashes + 1
  /\ next' = saved + 1 /\ GoTo("read")
  /\ recurso' = NoRecurso /\ cursor' = NoCursor /\ missed' = {}
  /\ UNCHANGED <<server, saved, known, published, faults>>

\* The ERP commits its next transaction.
Commit ==
  /\ committed < Len(log) /\ committed' = committed + 1
  /\ UNCHANGED <<log, mariadb, saved, next, pc, known, recurso, cursor, missed, published, bounds>>

Finished == saved = Len(log) /\ UNCHANGED vars

Next ==
  \/ NoEvent \/ ReadClock \/ Representante \/ DadosPedido \/ Endereco
  \/ CamposPersonalizados \/ Campo \/ CamposRead \/ Itens \/ Parcelas \/ Publish
  \/ Save \/ Crash \/ Commit \/ Finished

Spec == Init /\ [][Next]_vars

-----------------------------------------------------------------------------
(* Properties *)

PartType == [ver : Nat, state : {"default", "whole", "partial"}]
RecursoType ==
  [parts : [Parts -> PartType], answers : Seq([opcoes : Nat, nan : BOOLEAN])]

\* The types of the variables: what is read was committed.
TypeOK ==
  /\ log \in Logs /\ committed \in 0 .. Len(log) /\ mariadb \in BOOLEAN
  /\ saved \in 0 .. Len(log) /\ next \in saved + 1 .. committed + 1
  /\ pc \in {"read", "campo", "publish"} \cup Parts
  /\ known \in 0 .. committed
  /\ recurso \in RecursoType
  /\ \A q \in Parts : recurso.parts[q].ver <= committed
  /\ cursor.ver \in 0 .. committed /\ cursor.row \in Nat
  /\ cursor.state \in {"whole", "partial"}
  /\ missed \subseteq Tables
  /\ published \in Seq([n : 1 .. Len(log), known : Nat, recurso : RecursoType,
                        missed : SUBSET Tables, enriched : BOOLEAN])
  /\ faults \in 0 .. MaxFaults /\ crashes \in 0 .. MaxCrashes

Filled(p, q) == p.recurso.parts[q].state # "default"

\* rows.go: the snapshot is "no máximo tão novo quanto ela, nunca mais antigo" - nothing
\* that Enrich filled, options of custom fields included, is older than what MariaDB
\* held when dataEvento was read, whatever failed in between.
NotOlderThanDate ==
  \A k \in DOMAIN published :
    LET p == published[k] IN
    /\ \A q \in Parts : Filled(p, q) => p.recurso.parts[q].ver >= Version(q, p.known)
    /\ \A a \in DOMAIN p.recurso.answers :
         LET opcoes == p.recurso.answers[a].opcoes
         IN opcoes # 0 => opcoes >= Version("opcoes", p.known)

\* ADR 0001 has a client keep the snapshot with the latest date: of two Events the one
\* with the later date never holds an older reading of any part, not even when it
\* comes from an older change that a crash made the producer handle again.
LaterReadsNewer ==
  \A j, k \in DOMAIN published : \A q \in Parts :
    j < k /\ Filled(published[j], q) /\ Filled(published[k], q) =>
      published[j].recurso.parts[q].ver <= published[k].recurso.parts[q].ver

\* The last change of the row of pedidos.
LastChange ==
  CHOOSE n \in DOMAIN log :
    /\ log[n].action # "none"
    /\ \A m \in DOMAIN log : log[m].action # "none" => m <= n

\* The ERP changes no part of the pedido after its last change of the row itself.
RowChangedLast == \A n \in LastChange + 1 .. Len(log) : log[n].writes = {}

Asked(q, n) ==
  CASE q = "representante" -> log[n].vendedor # ""
    [] q = "parcelas" -> log[n].condicao
    [] OTHER -> TRUE

\* Every part that MariaDB holds is there, as it is in the end.
Complete(p) ==
  \A q \in Parts :
    Asked(q, p.n) /\ ~Gone(Version(q, Len(log))) =>
      p.recurso.parts[q] = [ver |-> Version(q, Len(log)), state |-> "whole"]

Quiet == pc = "read" /\ next > Len(log)

\* GLOSSARY: "O snapshot pode estar incompleto [...] o Evento seguinte do Recurso o
\* completa."  Once all is handled the last snapshot is whole and current, however
\* torn the ones before it, if none of its own queries failed and it could be
\* serialised.
CompletedByNext ==
  Quiet /\ RowChangedLast /\ published # <<>> =>
    LET p == published[Len(published)] IN
    p.n = LastChange /\ log[p.n].action # "DELETE" /\ p.enriched /\ p.missed = {} => Complete(p)
=============================================================================
