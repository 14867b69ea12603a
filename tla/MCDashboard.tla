---------------------------- MODULE MCDashboard ----------------------------
(* Two groups and all of them; two heartbeats; two configurations; documents   *)
(* of each form, with records out of order, of equal times, of several        *)
(* traces, and such as cannot be read.                                        *)
EXTENDS Dashboard

Record(shape, time, trace, broken) ==
  [shape |-> shape, time |-> time, observed |-> Missing, trace |-> trace, body |-> "ui.tap",
   picture |-> NoPicture, broken |-> broken]

Shot(record, picture) == [record EXCEPT !.body = "ui.screenshot", !.picture = picture]

MCReported == {1, 2}
MCRenamed == {4}

Early == Record("log", 1000000, "a", FALSE)
Late  == Shot(Record("log", 2500000, "a", FALSE), "p1")
Tied  == [Record("log", Missing, "b", FALSE) EXCEPT !.observed = 2000000]
Loose == Shot(Record("flat", 2, "", FALSE), "p2")
Undated == Shot(Record("flat", Missing, "b", FALSE), NoPicture)
Null  == Record("null", Missing, "", FALSE)
Junk  == Record("malformed", Missing, "", FALSE)
Bad   == Record("log", 3000000, "a", TRUE)
Framed == [Early EXCEPT !.body = "ui.wireframe"]

Doc(form, records) == [form |-> form, records |-> records]

MCDocuments ==
  {Doc("blank", <<>>),
   Doc("envelope", << <<Late, Tied>>, <<Early, Framed, Early>> >>),
   Doc("envelope", << <<Late>>, <<Bad>> >>),
   Doc("array", <<Loose, Late, Undated, Early>>),
   Doc("array", <<Early, Null>>),
   Doc("lines", <<Junk, Loose, Null, Bad, Tied, Early, Loose>>)}

Symmetric == Permutations(Contents)
=============================================================================
