---------------------------- MODULE MCDefinitions ----------------------------
(***************************************************************************)
(* Contents with typeorm steps in, between and behind transactional sets,  *)
(* async sets and the steps of cursors, with none of what the redress does *)
(* wrong (a transaction opened again in its own set, or behind it; a step  *)
(* that relies on the transaction around its async set or cursor); starts  *)
(* with duplicate, disabled, malformed and failing definitions, and trigger*)
(* steps that share a cache key across different contents.                 *)
(***************************************************************************)
EXTENDS Definitions

CONSTANTS t1, t2

Redressing == INSTANCE RedressMeaning

MCRedressedIn(environment, given) == Redressing!Redressed(environment, given)
MCRunsAt(given) == Redressing!Runs(given)
MCMeantAt(environment, given) == Redressing!MeantToRun(environment, given)

Object(use, datasource, transaction, autonomous, inside) ==
  [use |-> use, datasource |-> datasource, transaction |-> transaction,
   autonomous |-> autonomous, inside |-> inside]

other(inside) == Object("other", Blank, Blank, FALSE, inside)
set(datasource, transaction, inside) ==
  Object("transactional", datasource, transaction, FALSE, inside)
step(datasource, transaction) == Object("typeorm", datasource, transaction, FALSE, <<>>)
cursor(datasource, transaction, inside) ==
  Object("cursor", datasource, transaction, FALSE, inside)
async(inside) == Object("async", Blank, Blank, FALSE, inside)
plain == step(Blank, Blank)
alone == Object("typeorm", "ds", Blank, TRUE, <<>>)

(* A set, what is behind it, and one inside of another. *)
tree ==
  [behind |-> other(<<set(Blank, Blank, <<plain, alone, other(<<plain>>)>>), plain>>),
   nested |-> other(<<plain, set("ds", Blank, <<step("ds", Blank),
                set("ds", "tx", <<step("ds", "tx"), step("ds", Blank), plain>>),
                step("ds", Blank), step("ds", "tx")>>), step("ds", Blank)>>),
   after |-> other(<<set("ds", "tx", <<step("ds", "tx"), step("ds", Blank)>>),
                     set("ds", "ty", <<step("ds", "ty")>>), step("ds", "tx"), alone>>),
   aside |-> other(<<async(<<set("ds", "tx", <<step("ds", "tx")>>), plain>>),
                     set("ds", "tx", <<cursor("ds", "tx", <<alone>>),
                       async(<<set("ds", "ty", <<step("ds", "ty")>>), alone>>),
                       step("ds", "tx")>>),
                     cursor(Blank, Blank, <<plain, set("ds", "tx", <<step("ds", "tx")>>)>>)>>),
   sources |-> set("ds", Blank, <<set(Blank, Blank, <<step("ds", Blank), plain>>), plain>>),
   single |-> plain]

def(type, code, enabled, initOnly, given) ==
  [type |-> type, code |-> code, enabled |-> enabled, initOnly |-> initOnly,
   given |-> given, fails |-> FALSE, registers |-> <<>>]
startup(code, enabled, fails, registers) ==
  [def("pipeline", code, enabled, TRUE, other(<<plain>>))
     EXCEPT !.fails = fails, !.registers = registers]

malformed == [is |-> "malformed"]

MCDefinition ==
  [a |-> def("pipeline", "A", TRUE, FALSE, tree.behind),
   aAgain |-> def("pipeline", "A", TRUE, FALSE, tree.single),
   aDisabled |-> def("pipeline", "A", FALSE, FALSE, tree.single),
   b |-> def("pipeline", "B", TRUE, FALSE, tree.nested),
   s |-> def("step", "S", TRUE, FALSE, tree.single),
   sAgain |-> def("step-sets", "S", TRUE, FALSE, tree.after),
   sDisabled |-> def("step", "S", FALSE, FALSE, tree.single),
   sets |-> def("step-sets", "T", TRUE, FALSE, tree.sources),
   load |-> startup("Load", TRUE, FALSE, <<"b", "aDisabled", "s">>),
   broken |-> startup("Broken", TRUE, TRUE, <<>>),
   loadMalformed |-> startup("Malformed", TRUE, FALSE, <<"s", "bad">>),
   off |-> startup("Off", FALSE, TRUE, <<"b">>),
   first |-> startup("First", TRUE, FALSE, <<>>),
   after |-> def("pipeline", "W", TRUE, FALSE, tree.after),
   aside |-> def("step-sets", "U", TRUE, FALSE, tree.aside),
   bad |-> malformed]

MCSourceLists ==
  {<<"load", "a", "s">>, <<"first", "load", "a">>, <<"a", "sDisabled", "s", "off">>,
   <<"a", "aAgain">>, <<"a", "aDisabled">>, <<"s", "a", "sAgain">>, <<"a", "bad">>,
   <<"a", "first", "broken", "load">>, <<"a", "loadMalformed">>, <<"aDisabled", "first">>}

MCEnvironments ==
  {[strict |-> strict, redressDataSource |-> d, redressTransaction |-> t] :
     strict \in {FALSE}, d \in BOOLEAN, t \in BOOLEAN}
    \union {[strict |-> TRUE, redressDataSource |-> TRUE, redressTransaction |-> TRUE]}

MCTexts == {"a", "b", "sets", "after", "aside", "bad"}

byCode(code) == [code |-> code, content |-> Blank, cacheKey |-> Blank]
byContent(content, key) == [code |-> Blank, content |-> content, cacheKey |-> key]

MCRequests ==
  {byCode("A"), byCode("B"), byContent(Blank, "k"), byContent("s", "k"),
   byContent("bad", "k"), byContent("a", "k"), byContent("b", "k"),
   byContent("sets", "k"), byContent("aside", "k"), byContent("after", Blank)}
=============================================================================
