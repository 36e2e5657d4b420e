------------------------------ MODULE MCDnsCodec ------------------------------
(* Limits a few bytes wide, and names on both sides of each. *)
EXTENDS DnsCodec

\* a 0 5 6 8 - * . \ and a character of Latin-1
MCCharacters == {97, 48, 53, 54, 56, 45, 42, 46, 92, 200}
MCLabels == SeqOf(MCCharacters \cup {65}, 3) \ {<<>>}
MCToLower == [l \in MCLabels |-> [i \in DOMAIN l |-> IF l[i] = 65 THEN 97 ELSE l[i]]]
MCLabelSize == [l \in MCLabels |-> Len(l)]
MCStar == <<42>>

\* "aA.a", "0.a", "aA.0a", "*.0.a" and the root
MCTexts == {<<97, 65, 46, 97>>, <<48, 46, 97>>, <<97, 65, 46, 48, 97>>, <<42, 46, 48, 46, 97>>, <<46>>}
MCFields == {<<1, 97, 0>>, [i \in 1 .. 60 |-> 97]}

MCTerms ==
  [type_covered : {"TXT"}, algorithm : {"ECDSAP256SHA256"}, original_ttl : {1, 65537},
   sig_expiration : {2}, sig_inception : {1}, key_tag : {7}, class : {"IN", "CH"}]
MCSigners == {<<<<97>>>>, <<<<65>>>>, <<<<97, 65>>, <<48, 97>>>>}
MCTxtOf == (1 :> <<<<97>>>> @@ 2 :> <<<<97>>, <<97>>>>)
MCRdatas ==
  {[type |-> "TXT", txt_data |-> <<<<97>>, <<97, 97, 97, 97, 97>>>>],
   [type |-> "TXT", txt_data |-> <<<<97>>, <<>>>>],
   [type |-> "DNSKEY", zone_key |-> TRUE, revoke |-> FALSE, secure_entry_point |-> TRUE,
    algorithm |-> "ECDSAP256SHA256", public_key |-> <<97>>],
   [type |-> "SIG", sig |-> [terms |-> CHOOSE t \in MCTerms : TRUE, num_labels |-> 1,
                             signer_name |-> <<<<97, 65>>, <<97>>>>, signature |-> <<97>>]]}
==============================================================================
