--------------------------- MODULE MCPanelStorage ----------------------------
(* PanelStorage on a small instance. *)
EXTENDS PanelStorage

Plain == [id |-> 1, tls |-> FALSE, headers |-> Here, acme |-> NoToken]
Secure == [id |-> 1, tls |-> TRUE, headers |-> Here, acme |-> Here]
Installations ==
  {[db |-> Plain, cert |-> {}, key |-> {}, enabled |-> {}],
   [db |-> Secure, cert |-> {1}, key |-> {1}, enabled |-> {TRUE}]}

There == "there"
Theirs == [id |-> 2, tls |-> TRUE, headers |-> There, acme |-> There]
Newer == [id |-> 3, tls |-> FALSE, headers |-> There, acme |-> NoToken]
Uploads ==
  {[db |-> Theirs, tls |-> FALSE, cert |-> {}, key |-> {}, enabled |-> {}],
   [db |-> Theirs, tls |-> TRUE, cert |-> {9}, key |-> {9}, enabled |-> {TRUE}],
   [db |-> Theirs, tls |-> TRUE, cert |-> {8}, key |-> {9}, enabled |-> {TRUE}],
   [db |-> Newer, tls |-> TRUE, cert |-> {}, key |-> {}, enabled |-> {}]}
ForeignIds == {3}
=============================================================================
