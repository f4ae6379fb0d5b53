-------------------------------- MODULE Wire --------------------------------
(***************************************************************************)
(* A message from the object one party serializes to the object another    *)
(* gets: written, framed when it goes over the network, cut short or       *)
(* changed in one byte on the way or on disk, and read.  On the receiving  *)
(* side MessageHandlerRegistry decodes the payload of a frame and lowers   *)
(* the reputation of the sender when that fails.                           *)
(***************************************************************************)
EXTENDS WireFormats

CONSTANTS Messages,    \* the messages sent: a type and a record of its fields
          Blake3(_)    \* the hash of bytes, as a number (external)

VARIABLES type,       \* the type of the message
          message,    \* the message as its sender made it
          data,       \* the bytes on the way
          changed,    \* what happened to them: "no", "cut", "type" or "byte"
          registered, \* the types with a handler in MessageHandlerRegistry
          got,        \* what the receiver made of them
          framed      \* the payload of the frame the receiver accepted

wireVars == <<type, message, data, changed, registered, got, framed>>

\* The values of MessageType.
NetworkTypes == <<"Transaction", "Block", "Vote", "BlockRequest", "BlockResponse",
                  "ValidatorSetUpdate">>
IsFramed(t) == \E k \in DOMAIN NetworkTypes : NetworkTypes[k] = t
Code(t) == (CHOOSE k \in DOMAIN NetworkTypes : NetworkTypes[k] = t) - 1

Writers == [Transaction |-> SerializeTransaction, Block |-> SerializeBlock,
            Vote |-> SerializeVote, BlockRequest |-> SerializeBlockRequest,
            BlockResponse |-> SerializeBlockResponse,
            ValidatorSetUpdate |-> SerializeValidatorSetUpdate,
            Receipt |-> SerializeReceipt, Account |-> SerializeAccount,
            ValidatorSet |-> SerializeValidatorSet,
            LightClientState |-> SerializeLightClientState,
            HeaderProof |-> SerializeHeaderProof, Checkpoint |-> SerializeCheckpoint,
            MerkleProof |-> SerializeMerkleProof, Allocation |-> SerializeAllocation,
            GenesisConfig |-> SerializeGenesisConfig]
Readers == [Transaction |-> DeserializeTransaction, Block |-> DeserializeBlock,
            Vote |-> DeserializeVote, BlockRequest |-> DeserializeBlockRequest,
            BlockResponse |-> DeserializeBlockResponse,
            ValidatorSetUpdate |-> DeserializeValidatorSetUpdate,
            Receipt |-> DeserializeReceipt, Account |-> DeserializeAccount,
            ValidatorSet |-> DeserializeValidatorSet,
            LightClientState |-> DeserializeLightClientState,
            HeaderProof |-> DeserializeHeaderProof, Checkpoint |-> DeserializeCheckpoint,
            MerkleProof |-> DeserializeMerkleProof, Allocation |-> DeserializeAllocation,
            GenesisConfig |-> DeserializeGenesisConfig]

PayloadOf(m) == Write(Writers[m.type], m.fields)

\* Every message is one of the types above, and its fields fit their bytes.
ASSUME MessagesAssumption ==
    \A m \in Messages : /\ m.type \in DOMAIN Writers
                        /\ Fits(Writers[m.type], m.fields)
                        /\ IsFramed(m.type) => Len(PayloadOf(m)) < Huge

\* The hash of a payload is in the range of the values.  It is not the hash
\* of the payload with one byte changed, and no payload, continued by its own
\* hash, holds the hash of one of its prefixes right behind that prefix.
ASSUME HashAssumption ==
    \A m \in {x \in Messages : IsFramed(x.type)} :
        LET p == PayloadOf(m)
            q == p \o BytesLE(Blake3(p), 32)
        IN  /\ Blake3(p) \in 0..(Huge - 1)
            /\ \A i \in 1..Len(p) : Blake3([p EXCEPT ![i] = (@ + 1) % 256]) # Blake3(p)
            /\ \A n \in 0..(Len(p) - 1) :
                  Blake3(SubSeq(p, 1, n)) # NumberLE(SubSeq(q, n + 1, n + 32))

\* NetworkMessage: the hash covers the payload and not the type.
NetworkMessage(t, payload) == [type |-> t, payload |-> payload, hash |-> Blake3(payload)]

Payload == Write(Writers[type], message)

NotYet == [ended |-> "not yet", rec |-> <<>>, at |-> 0]
Ignored == [ended |-> "ignored", rec |-> <<>>, at |-> 0]
Penalized == [ended |-> "penalized", rec |-> <<>>, at |-> 0]

WireInit ==
    /\ \E m \in Messages : type = m.type /\ message = m.fields
    /\ registered \in {{}, {NetworkTypes[k] : k \in DOMAIN NetworkTypes}}
    /\ IsFramed(type) \/ registered = {}
    /\ data = IF IsFramed(type)
              THEN Write(SerializeFrame, NetworkMessage(Code(type), Payload))
              ELSE Payload
    /\ changed = "no"
    /\ got = NotYet
    /\ framed = <<>>

\* The bytes end early: a connection closes, a file is short.
Cut(n) ==
    /\ changed = "no" /\ got = NotYet
    /\ data' = SubSeq(data, 1, n)
    /\ changed' = "cut"
    /\ UNCHANGED <<type, message, registered, got, framed>>

\* One byte of a frame arrives as another value.
Damage(i) ==
    /\ changed = "no" /\ got = NotYet /\ IsFramed(type)
    /\ data' = [data EXCEPT ![i] = (@ + 1) % 256]
    /\ changed' = IF i = 1 THEN "type" ELSE "byte"
    /\ UNCHANGED <<type, message, registered, got, framed>>

\* Mutant: the hash is not compared.
AcceptFrameUnhashed(bytes) == Read(DeserializeFrame, bytes)
\* NetworkMessage::deserialize: the hash is computed again and compared.
HashChecked(f) ==
    IF f.ended = "read" /\ f.rec.hash # Blake3(f.rec.payload) THEN Threw ELSE f
AcceptFrame(bytes) == HashChecked(Read(DeserializeFrame, bytes))

\* handle_..._message for the type in the frame: without a handler nothing
\* happens, and a payload that cannot be decoded costs its sender reputation.
Decoded(r) == IF r.ended = "threw" THEN Penalized ELSE r
HandleMessage(f) ==
    IF f.type + 1 \notin DOMAIN NetworkTypes THEN Ignored
    ELSE IF NetworkTypes[f.type + 1] \notin registered THEN Ignored
    ELSE Decoded(Read(Readers[NetworkTypes[f.type + 1]], f.payload))

\* What comes of the frame f, accepted or not.
Dispatch(f) ==
    IF f.ended = "read"
    THEN got' = HandleMessage(f.rec) /\ framed' = f.rec.payload
    ELSE got' = f /\ UNCHANGED framed

ReceiveFrame ==
    /\ got = NotYet /\ IsFramed(type)
    /\ Dispatch(AcceptFrame(data))
    /\ UNCHANGED <<type, message, data, changed, registered>>

\* Data that is stored or handed over directly is read without a frame.
ReadData ==
    /\ got = NotYet /\ ~IsFramed(type)
    /\ got' = Read(Readers[type], data)
    /\ UNCHANGED <<type, message, data, changed, registered, framed>>

WireNext ==
    \/ \E n \in 0..(Len(data) - 1) : Cut(n)
    \/ \E i \in DOMAIN data : Damage(i)
    \/ ReceiveFrame
    \/ ReadData

WireSpec == WireInit /\ [][WireNext]_wireVars

-----------------------------------------------------------------------------
(* Properties.                                                             *)

\* The message as its reader knows it: a network vote loses its signature.
AsRead == IF type = "Vote" THEN [message EXCEPT !.signature = 0] ELSE message

\* Whatever is written is read back as it was, and reading penalises nobody:
\* the two tables of every type agree in the order, the width and the byte
\* order of all items, and in every count and length.
RoundTrip ==
    changed = "no" /\ got # NotYet =>
        \/ got.ended = "read" /\ got.rec = AsRead
        \/ got = Ignored /\ type \notin registered

\* Data that was cut short is never taken for another message.  Two readers
\* do not test for the end: a cut allocation may lose its vesting schedule,
\* and only it and a header proof are read past the end.
NoPrefixMisread ==
    changed = "cut" /\ got # NotYet =>
        \/ got.ended = "threw"
        \/ got.ended = "overran" /\ type \in {"Allocation", "HeaderProof"}
        \/ type = "Allocation" /\ got.ended = "read"
             /\ got.rec = [message EXCEPT !.has_vesting = 0, !.vesting_schedule = <<>>]

\* What happens to a frame on its way never changes the payload a handler
\* sees, and costs the sender no reputation unless it hits the type byte,
\* which the hash leaves out.
FrameProtectsPayload ==
    /\ framed # <<>> => framed = Payload
    /\ got = Penalized => changed = "type"
=============================================================================
