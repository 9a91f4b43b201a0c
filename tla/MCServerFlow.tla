---------------------------- MODULE MCServerFlow ----------------------------
EXTENDS ServerFlow
CONSTANTS f1, f2, plan, sink, note
D(i, ds, g) == [id |-> i, deps |-> ds, gen |-> g]
MCYamls == {<<D(plan, {}, TRUE), D(sink, {plan}, FALSE)>>,
            <<D(note, {}, FALSE), D(plan, {}, FALSE)>>,
            <<D(plan, {}, FALSE), D(plan, {}, FALSE)>>}
MCSubDefs == {<<D(note, {}, FALSE)>>}
MCPlans == {<<D(note, {}, FALSE), D(sink, {}, FALSE)>>}
ASSUME MCWellFormed == WellFormedFlows
=============================================================================
