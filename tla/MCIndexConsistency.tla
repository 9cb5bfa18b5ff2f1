-------------------------- MODULE MCIndexConsistency --------------------------
EXTENDS IndexConsistency

CONSTANTS x, y, p, q

Def(n, s) == [name |-> n, spec |-> s, building |-> FALSE]
Built(n, s) == [name |-> n, spec |-> s, building |-> TRUE]

OneDatabase == [c \in Collections |-> "db"]
TwoDatabases == [c \in Collections |-> c]

On(one, two) == [s \in Shards |-> CASE s = 1 -> one [] s = 2 -> two [] OTHER -> {}]

MCCatalogs ==
    {On({Def(x, p)}, {Def(x, p)}), On({Def(x, p)}, {}),
     On({Def(x, p)}, {Def(x, q)}), On({Def(x, p)}, {Def(y, p)}),
     On({Def(x, p), Built(y, q)}, {}), On({Def(x, p), Built(y, q)}, {Def(x, p)}),
     On({Def(x, p), Built(y, q)}, {Def(y, p)})}

MCVersions == {<<3, 2, 9>>, <<4, 2, 3>>, <<4, 2, 4>>, <<7, 0, 0>>}
MCAnswers == {{}, {"missing", "foreign"}, {"unknown"}}
===============================================================================
