-------------------------- MODULE MCDiagnosticsCounts --------------------------
(* Two workbooks, of one dataset or of both, over three quarters.          *)
EXTENDS DiagnosticsCounts

At(kind, at) == [kind |-> kind, at |-> at]
Object(account) == [form |-> "object", exact |-> TRUE, digits |-> account]
Float(account) == [Object(account) EXCEPT !.exact = FALSE]
Mangled(account) == [Object(account) EXCEPT !.form = "mangled"]
None == [form |-> "none", exact |-> FALSE, digits |-> ""]
NoStatus == [user |-> None, own |-> None]
By(cell) == [user |-> cell, own |-> Object("eve")]

Row(user, time, text) ==
  [user |-> user, time |-> time, text |-> text, id |-> "", mentions |-> << >>,
   retweet |-> NoStatus, reply |-> NoStatus, quote |-> NoStatus]

\* quarters start at 10, 20 and 30; eve has no node
Hello == [Row(Object("ann"), At("number", 12), "hello") EXCEPT !.mentions = <<Object("bob")>>]
RowsA == {Hello,
          [Hello EXCEPT !.text = "hi", !.mentions = <<Mangled("bob"), Float("eve"), Object("bob")>>],
          [Row(Object("ann"), At("number", 35000), "hello")
             EXCEPT !.mentions = <<Object("ann")>>, !.retweet = By(Object("bob"))],
          [Row(Object("eve"), At("date", 4), "blank") EXCEPT !.reply = By(Mangled("ann"))],
          [Row(Mangled("bob"), At("text", 0), "null") EXCEPT !.quote = By(None)],
          [Row(Float("ann"), At("missing", 0), "") EXCEPT !.reply = By(Float("bob"))]}
RowsB == {[Row(Object("ann"), At("date", 12), "hello") EXCEPT !.id = "t1"],
          [Row(Object("ann"), At("number", 31), "hi") EXCEPT !.id = "t1"],
          [Row(Object("bob"), At("number", 22), "hello there") EXCEPT !.id = "1.2e+18"],
          [Row(Mangled("bob"), At("nan", 0), "blank") EXCEPT !.id = "t2"],
          Row(None, At("number", 40), "hi"),
          [Row(Object("bob"), At("number", 99), "null") EXCEPT !.id = "t2"]}

Book(name, dataset, rows) == [name |-> name, dataset |-> dataset, rows |-> rows]
Pairs(rows) == [1 .. 2 -> rows]
SomeInputs ==
  {<<Book(1, "A", p), Book(2, "A", q)>> : p, q \in Pairs(RowsA)}
    \cup {<<Book(2, "B", p), Book(1, "B", q)>> : p, q \in Pairs(RowsB)}
    \cup {<<Book(1, "A", p), Book(2, "B", q)>> : p \in Pairs(RowsA), q \in Pairs(RowsB)}

Texts == [t \in {"null", "", "blank", "hi", "hello", "hello there"} |->
            CASE t = "null" -> [quality |-> "null", size |-> 0]
              [] t = "" -> [quality |-> "empty", size |-> 0]
              [] t = "blank" -> [quality |-> "blank", size |-> 3]
              [] t = "hi" -> [quality |-> "ok", size |-> 2]
              [] t = "hello" -> [quality |-> "ok", size |-> 5]
              [] t = "hello there" -> [quality |-> "ok", size |-> 11]]
Qualities == [t \in DOMAIN Texts |-> Texts[t].quality]
TextSizes == [t \in DOMAIN Texts |-> Texts[t].size]
Calendar == <<10, 20, 30, 40>>
SomeQuantiles == {<<1, 2>>, <<9, 10>>}
=============================================================================
