------------------------------- MODULE AppsMC -------------------------------
(***************************************************************************)
(* Instances of Apps: acct owns the DocType inv and ships a row of it, crm *)
(* extends inv, region ships the same row.                                 *)
(***************************************************************************)
EXTENDS Apps

CONSTANTS acct, crm, region, inv, title, note, flow, row, one, two

Blank(a, v) == [app |-> a, version |-> v, named |-> FALSE, doctypes |-> {}, fields |-> {},
                extends |-> {}, adds |-> {}, hooks |-> {}, clients |-> {}, flows |-> {},
                ships |-> {}]

Acct(v, ships, fl, named) ==
  [Blank(acct, v) EXCEPT !.named = named, !.doctypes = {inv}, !.fields = {<<inv, title>>},
     !.hooks = {inv}, !.clients = {inv}, !.flows = fl, !.ships = ships]
Crm == [Blank(crm, 1) EXCEPT !.extends = {inv}, !.adds = {<<inv, note>>}, !.hooks = {inv}]
Region == [Blank(region, 1) EXCEPT !.ships = {row}]

Do(kind, b, ack) == [kind |-> kind, bundle |-> b, ack |-> ack]
Work(x, y) == [o \in Operator |-> IF o = one THEN x ELSE y]

\* Versions that ship the row after one that did not, with an uninstall between.
Edited ==
  Work(<<Do("install", Acct(1, {}, {flow}, FALSE), FALSE),
         Do("update", Acct(2, {row}, {flow}, FALSE), FALSE),
         Do("uninstall", Acct(2, {row}, {}, FALSE), FALSE),
         Do("install", Acct(3, {row}, {}, FALSE), FALSE),
         Do("update", Acct(4, {}, {}, FALSE), FALSE)>>, <<>>)

\* Two apps that ship one row.
Contended ==
  Work(<<Do("install", Acct(1, {}, {}, FALSE), FALSE),
         Do("update", Acct(2, {row}, {}, FALSE), FALSE)>>,
       <<Do("install", Region, TRUE)>>)

\* One bundle installed by two managers at once.
Twice ==
  Work(<<Do("install", Acct(1, {row}, {}, TRUE), FALSE)>>,
       <<Do("install", Acct(1, {row}, {}, TRUE), FALSE)>>)

\* An owner and an app that extends its DocType; the owner's DocType names its
\* app, as in the SDK's template, or does not.
Extended(named, ack) ==
  Work(<<Do("install", Acct(1, {}, {flow}, named), FALSE),
         Do("update", Acct(2, {}, {}, named), ack),
         Do("uninstall", Acct(2, {}, {}, named), FALSE)>>,
       <<Do("install", Crm, FALSE), Do("uninstall", Crm, FALSE)>>)

\* The extension stays, while its owner is updated, uninstalled and installed again.
Staying ==
  Work(<<Do("install", Acct(1, {}, {}, TRUE), FALSE), Do("update", Acct(2, {}, {}, TRUE), FALSE),
         Do("uninstall", Acct(2, {}, {}, TRUE), FALSE),
         Do("install", Acct(3, {}, {}, TRUE), TRUE)>>,
       <<Do("install", Crm, FALSE)>>)

\* An app disabled and enabled while it is updated.
Toggled ==
  Work(<<Do("install", Acct(1, {}, {}, TRUE), FALSE), Do("disable", Acct(1, {}, {}, TRUE), FALSE),
         Do("enable", Acct(1, {}, {}, TRUE), FALSE)>>,
       <<Do("update", Acct(2, {}, {}, TRUE), FALSE)>>)

Everything == {Edited, Contended, Twice, Extended(TRUE, TRUE),
               Extended(TRUE, FALSE), Extended(FALSE, FALSE), Staying, Toggled}

Keyed == [k \in Key |-> inv]
=============================================================================
