------------------------------ MODULE MCRFWeb -------------------------------
(* Instances of RFWeb: a switch that is not connected goes, and may come    *)
(* back, beside the proxy and another switch.                                *)
EXTENDS RFWeb

Row(id, links) == [id |-> id, links |-> links]

MCTopologies ==
    <<<<Row("s1", <<"rfproxy">>), Row("rfproxy", <<>>), Row("s2", <<>>)>>,
      <<Row("s1", <<"rfproxy">>), Row("rfproxy", <<>>)>>>>

MCChannels == [client |-> [shown |-> {1}, all |-> {1, 6}]]

MCMessages == [client |-> <<6, 1, 6>>]

Budget(presses, clicks, tabs, changes, losses) ==
    [presses |-> presses, clicks |-> clicks, tabs |-> tabs, changes |-> changes, losses |-> losses]

MCBudgets ==
    {Budget(2, 0, 0, 0, 0), Budget(1, 0, 0, 1, 0), Budget(1, 0, 0, 0, 1), Budget(1, 0, 2, 0, 0),
     Budget(0, 0, 1, 2, 0), Budget(0, 2, 1, 0, 1)}

MCEntries == <<2, 1, 2>>
=============================================================================
