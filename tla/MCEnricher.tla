----------------------------- MODULE MCEnricher -----------------------------
(* Instances of Enricher for TLC.                                            *)
EXTENDS Enricher

T(action, writes, vendedor, condicao, campos, nulls) ==
  [action |-> action, writes |-> writes, vendedor |-> vendedor, condicao |-> condicao,
   campos |-> campos, nulls |-> nulls]

\* A box, a field of a submodule of another page, and one of text.
Answers == <<"box", "unknown", "plain">>

\* A row with a NULL beside one without, and a number that is NaN.
OddAnswers == <<"refused", "plain">>
NaNAnswers == <<"NaN">>

\* A pedido created without items, which come in a transaction of their own, and
\* changed as a whole later.
Grows == <<
  T("INSERT", Tables \ {"itens", "endereco"}, "usuario", TRUE, Answers, {}),
  T("none", {"itens", "endereco", "opcoes"}, "usuario", TRUE, Answers, {}),
  T("UPDATE", {"dados", "itens", "campos", "parcelas"}, "usuario", TRUE, Answers, {}) >>

\* A pedido with rows that Scan refuses, then one that cannot be serialised, which
\* is removed.
Odd == <<
  T("INSERT", Tables, "representante", FALSE, OddAnswers, {"itens", "representante"}),
  T("UPDATE", {"campos", "parcelas", "endereco"}, "", TRUE, NaNAnswers, {"parcelas"}),
  T("DELETE", Tables, "", FALSE, <<>>, {}) >>

MCLogs == {Grows, Odd}
=============================================================================
