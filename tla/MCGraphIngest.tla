--------------------------- MODULE MCGraphIngest ---------------------------
(* Small instances of GraphIngest for TLC. *)
EXTENDS GraphIngest

Blank == [author |-> "invalid", at |-> NoTime, text |-> "invalid", mentions |-> {},
          retweet |-> "none", reply |-> "none", quote |-> "none"]
By(author, at, text) == [Blank EXCEPT !.author = author, !.at = at, !.text = text]

\* ann and bob have a node index, eve has none; month 2 is before the calendar.
Hello == [By("ann", 3, "hello") EXCEPT !.mentions = {"ann", "bob", "eve"}]
Again == [By("ann", 4, "again") EXCEPT !.mentions = {"bob"}]
Reply == [By("bob", 6, "invalid") EXCEPT !.reply = "ann", !.quote = "eve"]
Early == [By("ann", 2, "early") EXCEPT !.retweet = "bob"]
Plain == By("bob", 3, "plain")

\* The second workbook repeats a row of the first, whose other content has
\* the same size.
TwoWorkbooks == <<[v1 |-> <<Hello, Blank, Again>>, v2 |-> <<Plain, Early, Reply>>],
                  [v1 |-> <<Hello, Reply>>]>>
Sizes == <<[v1 |-> 3, v2 |-> 3], [v1 |-> 2]>>
=============================================================================
