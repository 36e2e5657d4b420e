----------------------------- MODULE MCProveHost -----------------------------
(* A zone, its domain in another case, a name below it and four keys: two of  *)
(* P-256 with the same tag, one of RSA and one of Ed25519 with that tag, too. *)
EXTENDS ProveHost

CONSTANTS star, a, A, b, zsk, twin, rsa, ed

MCLabels == {star, a, A, b}
MCToLower == [l \in MCLabels |-> IF l = A THEN a ELSE l]
MCLabelSize == [l \in MCLabels |-> 1]
MCSigners == {<<a>>, <<A>>}
MCTag == [k \in {zsk, twin, rsa, ed} |-> IF k = rsa THEN 2 ELSE 1]

(* A record set signed with some keys, for a signer in lower or upper case. *)
Version(owner, rdata, signing, signer_name, keys) ==
  [owner |-> owner, rdata |-> rdata, keys |-> keys,
   rrsigs |-> {[of |-> [owner |-> owner, rdata |-> rdata, terms |-> MCTag[k], key |-> k,
                        signer |-> <<a>>],
                signer_name |-> signer_name] : k \in signing}]
MCVersions ==
  UNION {{Version(<<a>>, <<1>>, {zsk}, <<a>>, keys),
          Version(<<a>>, <<1>>, {zsk, rsa}, <<A>>, keys),
          Version(<<a>>, <<2>>, {twin, rsa}, <<a>>, keys),
          Version(<<a>>, <<1, 2>>, {zsk}, <<a>>, keys),
          Version(<<b, a>>, <<2>>, {zsk, ed}, <<a>>, keys)} :
         keys \in {{zsk, rsa}, {zsk, twin, ed}}}
MCSignings == {SetsOf(v) : v \in MCVersions}

FullName(labels) == [labels |-> labels, is_fqdn |-> FALSE]
MCArguments ==  \* the mode counts when a proof is asked for
  {args \in [domain : {FullName(<<A>>), FullName(<<b, a>>)},
             name : {FullName(<<a>>), FullName(<<b, a>>)},
             execute : BOOLEAN, prove : BOOLEAN, mode : {"succinct", "groth16"}] :
     (args.prove /\ ~args.execute) \/ args.mode = "groth16"}
==============================================================================
