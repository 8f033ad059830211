------------------------------ MODULE Location ------------------------------
(* Address::from and NetLocation::from_str (address.rs): the text of a destination to  *)
(* an address and a port.  A text is a sequence of characters, told apart as the code  *)
(* tells them apart: "1" a decimal digit, "a" a letter a to f, "z" any other character *)
(* than these, ".", ":", "[" and "]".                                                  *)
EXTENDS Integers, Sequences, SequencesExt, FiniteSetsExt

CONSTANTS
    V4Texts, V6Texts,  \* external: texts std parses as Ipv4Addr and as Ipv6Addr
    Names,             \* host names
    PortTexts,         \* external: texts std parses as u16
    Failed

VARIABLES text, parsed

locationVars == <<text, parsed>>

Index(s, chars) == {i \in DOMAIN s : s[i] \in chars}
Dots(s) == Index(s, {"."})

(* Where the loop over the characters stops: at a colon, at a character of no address, *)
(* or at the fourth dot.                                                               *)
Stops(s) ==
    {i \in DOMAIN s : \/ s[i] \in {":", "z", "[", "]"}
                      \/ s[i] = "." /\ Cardinality(Dots(SubSeq(s, 1, i))) = 4}
Scanned(s) == IF Stops(s) = {} THEN s ELSE SubSeq(s, 1, Min(Stops(s)))

From(s) ==
    LET seen == Scanned(s)
        possibleV4 == Index(seen, {":", "a", "z", "[", "]"}) = {}
        possibleV6 == Index(seen, {".", "z", "[", "]"}) = {}
        possibleHostname == Index(seen, {":"}) = {}
    IN  IF possibleV4 /\ Cardinality(Dots(seen)) = 3 /\ s \in V4Texts THEN [kind |-> "v4", of |-> s]
        ELSE IF possibleV6 /\ s \in V6Texts THEN [kind |-> "v6", of |-> s]
        ELSE IF possibleHostname THEN [kind |-> "name", of |-> s]
        ELSE Failed

(* The port is what follows the last colon, if it parses; without one the text must be *)
(* an IPv6 address, and the port the default one.                                      *)
FromStr(s, defaultPort) ==
    LET colons == Index(s, {":"})
        split == IF colons = {} THEN 0 ELSE Max(colons)
        hasPort == split > 0 /\ SubSeq(s, split + 1, Len(s)) \in PortTexts
        address == From(IF hasPort THEN SubSeq(s, 1, split - 1) ELSE s)
        port == IF hasPort THEN SubSeq(s, split + 1, Len(s)) ELSE defaultPort
    IN  IF address = Failed \/ port = Failed THEN Failed
        ELSE IF split > 0 /\ ~hasPort /\ address.kind # "v6" THEN Failed
        ELSE [address |-> address, port |-> port]

Texts == {h \o <<":">> \o p : h \in V4Texts \cup V6Texts \cup Names, p \in PortTexts}
         \cup {<<"[">> \o h \o <<"]", ":">> \o p : h \in V6Texts, p \in PortTexts}

LocationInit == text \in Texts /\ parsed = Failed
Parse == parsed = Failed /\ parsed' = FromStr(text, Failed) /\ UNCHANGED text
LocationSpec == LocationInit /\ [][Parse]_locationVars

(* As the comment on from_str says, "[ipv6]:port" is read as the address in brackets. *)
BracketedIsV6 ==
    \A h \in V6Texts, p \in PortTexts :
        parsed # Failed /\ text = <<"[">> \o h \o <<"]", ":">> \o p =>
            parsed = [address |-> [kind |-> "v6", of |-> h], port |-> p]
=============================================================================
