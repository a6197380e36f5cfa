----------------------------- MODULE FakeIpPool -----------------------------
(* The address arithmetic of FakeDns (app/dns/fakeip/mod.rs): which addresses a
   subnet offers, and which of them FakeDns::get takes next.  An address is its
   host part, so that the network is 0 and `min' is 2. *)
EXTENDS Naturals

CONSTANTS
    Hosts,    \* domain names
    Total     \* the `total' of FakeDns::new: addresses of the subnet less two

(* A /30 has a total of two.  For a /31 and a /32 the unsigned subtractions of
   FakeDns::new and FakeDns::get wrap around. *)
ASSUME PoolAssumption == Total \in Nat /\ Total >= 2

MinIp == 2
MaxIp == MinIp + Total - 1
Gateway == MinIp - 1

\* Offsets run below max - min, and an offset stands for min + offset - 1.
Modulus == MaxIp - MinIp
Offsets == 0 .. Modulus - 1
Ip(o) == MinIp + o - 1
Ips == {Ip(o) : o \in Offsets}

\* is_fake_ip: the subnet contains the address.
IsFakeIp(i) == i \in 0 .. Total + 1

\* The offsets FakeDns::get visits after `current' whose address is unused.
Free(current, used) ==
    {k \in 1 .. Modulus - 1 : Ip((current + k) % Modulus) \notin used}

\* The search came back to `current': the next address is taken from its host.
Full(current, used) == Free(current, used) = {}

\* The offset FakeDns::get ends with.
NextOffset(current, used) ==
    IF Full(current, used)
    THEN (current + 1) % Modulus
    ELSE LET k == CHOOSE k \in Free(current, used) :
                     \A j \in Free(current, used) : k <= j
         IN  (current + k) % Modulus
=============================================================================
