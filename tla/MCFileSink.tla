---- MODULE MCFileSink ----
(* Eight sinks on four paths, at most MaxSinks of them in one behaviour. *)
EXTENDS FileSink

O(kind, path, buffer, flush, append, lazy, layout) ==
    [kind |-> kind, path |-> path, buffer |-> buffer, flushOnWrite |-> flush, append |-> append,
     createOnDemand |-> lazy, layout |-> layout]
MCOption == [s \in {"a", "b", "c", "d", "e", "f", "g", "h"} |->
    CASE s = "a" -> O("file", "list", 3, FALSE, TRUE, FALSE, "array")
      [] s = "b" -> O("file", "list", 0, FALSE, TRUE, TRUE, "array")
      [] s = "c" -> O("file", "page", 3, TRUE, TRUE, FALSE, "page")
      [] s = "d" -> O("file", "page", 0, FALSE, FALSE, TRUE, "page")
      [] s = "e" -> O("json", "both", 3, FALSE, TRUE, FALSE, "plain")
      [] s = "f" -> O("file", "both", 1, FALSE, TRUE, FALSE, "plain")
      [] s = "h" -> O("file", "page", 1, FALSE, FALSE, FALSE, "page")
      [] s = "g" -> O("console", "out", 0, FALSE, TRUE, FALSE, "array")]
MCPaths == {"list", "page", "both", "out"}
====
