------------------------------ MODULE MCToolLoop ------------------------------
EXTENDS ToolLoop
CONSTANTS work, look, poll, bad
O(calls, text) == [calls |-> calls, text |-> text]
MCOutputs == {O(<< >>, "empty"), O(<< >>, "brief"), O(<<work>>, "brief"),
              O(<<bad, work>>, "long"), O(<<look>>, "empty"), O(<<look, work>>, "empty"),
              O(<<poll>>, "empty")}
===============================================================================
