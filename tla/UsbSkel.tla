------------------------------- MODULE UsbSkel -------------------------------
(***************************************************************************)
(* The USB driver of ldd3-master/usb/usb-skeleton.c.  A device is plugged  *)
(* in and out, by probe and disconnect, while processes hold files of it   *)
(* open; each of them, and the interface, holds a reference, and the last  *)
(* one to go frees the structure.  The kernel calls open with its big lock *)
(* held.  Neither read nor write takes any lock.                           *)
(***************************************************************************)
EXTENDS Integers, FiniteSets

CONSTANTS
  Files,      \* files processes may open
  MaxPlugs,   \* bound: devices plugged in, one after the other
  MaxReads    \* bound: packets the devices send

VARIABLES
  plug,            \* the hub: how many were plugged in, and where the newest is
  intfdata, minor, \* of the interface: its structure, and that it is registered
  kref, deleted,   \* of each structure
  lock,            \* who holds the kernel lock
  us_at,           \* of each file: its place,
  private_data,    \* its structure,
  found,           \* that found by open, or the packet read
  bulk_in_buffer,  \* of each structure: the last packet received
  sent,            \* packets sent by the devices
  urbs,            \* writes in flight
  us_trouble

usbVars == <<plug, intfdata, minor, kref, deleted, lock, us_at, private_data, found,
             bulk_in_buffer, sent, urbs, us_trouble>>

Devs == 1 .. MaxPlugs
Hub == "hub"

Init ==
  /\ plug = [count |-> 0, at |-> "out"]
  /\ intfdata = 0 /\ minor = FALSE
  /\ kref = [k \in Devs |-> 0] /\ deleted = [k \in Devs |-> FALSE]
  /\ lock = {}
  /\ us_at = [f \in Files |-> "closed"]
  /\ private_data = [f \in Files |-> 0] /\ found = [f \in Files |-> 0]
  /\ bulk_in_buffer = [k \in Devs |-> 0] /\ sent = 0
  /\ urbs = {}
  /\ us_trouble = {}

dev == plug.count
Hubs(place) == plug' = [plug EXCEPT !.at = place]
Go(f, place) == us_at' = [us_at EXCEPT ![f] = place]
If(what, when) == IF when THEN {what} ELSE {}

\* kref_put, with skel_delete for the last reference
Put(k) ==
  /\ kref' = [kref EXCEPT ![k] = @ - 1]
  /\ deleted' = [deleted EXCEPT ![k] = @ \/ kref[k] = 1]

-----------------------------------------------------------------------------
(* The interface *)

\* skel_probe up to usb_set_intfdata: the allocations may fail, and the device
\* may lack an endpoint.
skel_probe ==
  /\ plug.at = "out" /\ plug.count < MaxPlugs
  /\ LET k == plug.count + 1 IN
     \/ /\ plug' = [count |-> k, at |-> "probed"]
        /\ kref' = [kref EXCEPT ![k] = 1]
        /\ intfdata' = k
        /\ UNCHANGED deleted
     \/ /\ plug' = [count |-> k, at |-> "out"]
        /\ deleted' = [deleted EXCEPT ![k] = TRUE]
        /\ UNCHANGED <<kref, intfdata>>
  /\ UNCHANGED <<minor, lock, us_at, private_data, found, bulk_in_buffer, sent, urbs, us_trouble>>

\* usb_register_dev, which may fail
Register ==
  /\ plug.at = "probed"
  /\ \/ /\ minor' = TRUE /\ Hubs("in")
        /\ UNCHANGED <<intfdata, kref, deleted>>
     \/ /\ intfdata' = 0 /\ Put(dev) /\ Hubs("out")
        /\ UNCHANGED minor
  /\ UNCHANGED <<lock, us_at, private_data, found, bulk_in_buffer, sent, urbs, us_trouble>>

\* Fault: disconnect does not take the lock.
Lockable_Always == TRUE

Lockable == lock = {}

\* skel_disconnect: the section, in two steps, and the reference
skel_disconnect ==
  /\ \/ /\ plug.at = "in" /\ Lockable
        /\ lock' = lock \cup {Hub} /\ Hubs("leaving")
        /\ intfdata' = 0
        /\ UNCHANGED <<minor, kref, deleted>>
     \/ /\ plug.at = "leaving"
        /\ lock' = lock \ {Hub} /\ Hubs("left")
        /\ minor' = FALSE
        /\ UNCHANGED <<intfdata, kref, deleted>>
     \/ /\ plug.at = "left"
        /\ Put(dev) /\ Hubs("out")
        /\ UNCHANGED <<intfdata, minor, lock>>
  /\ UNCHANGED <<us_at, private_data, found, bulk_in_buffer, sent, urbs, us_trouble>>

-----------------------------------------------------------------------------
(* Files *)

\* skel_open: the interface and its structure, or -ENODEV,
Find(f) ==
  /\ us_at[f] = "closed" /\ lock = {}
  /\ minor /\ intfdata # 0
  /\ lock' = {f}
  /\ found' = [found EXCEPT ![f] = intfdata]
  /\ Go(f, "found")
  /\ UNCHANGED <<plug, intfdata, minor, kref, deleted, private_data, bulk_in_buffer, sent, urbs,
                 us_trouble>>

\* and a reference to it.
Get(f) ==
  /\ us_at[f] = "found"
  /\ us_trouble' = us_trouble \cup If("found a deleted one", deleted[found[f]])
  /\ kref' = [kref EXCEPT ![found[f]] = @ + 1]
  /\ private_data' = [private_data EXCEPT ![f] = found[f]]
  /\ found' = [found EXCEPT ![f] = 0]
  /\ lock' = lock \ {f}
  /\ Go(f, "open")
  /\ UNCHANGED <<plug, intfdata, minor, deleted, bulk_in_buffer, sent, urbs>>

skel_release(f) ==
  /\ us_at[f] = "open"
  /\ Put(private_data[f])
  /\ private_data' = [private_data EXCEPT ![f] = 0]
  /\ Go(f, "closed")
  /\ UNCHANGED <<plug, intfdata, minor, lock, found, bulk_in_buffer, sent, urbs, us_trouble>>

\* The structure of f answers: it has not been unplugged.
Plugged(f) == plug.at # "out" /\ private_data[f] = dev

\* skel_read: the transfer puts a packet into the structure's buffer, once
\* its last byte is there,
Receive(f) ==
  /\ us_at[f] = "open" /\ Plugged(f) /\ sent < MaxReads
  /\ sent' = sent + 1
  /\ bulk_in_buffer' = [bulk_in_buffer EXCEPT ![private_data[f]] = sent']
  /\ found' = [found EXCEPT ![f] = sent']
  /\ Go(f, "copy")
  /\ us_trouble' = us_trouble
       \cup If("two readers", \E g \in Files : us_at[g] = "copy")
       \cup If("used a deleted one", deleted[private_data[f]])
  /\ UNCHANGED <<plug, intfdata, minor, kref, deleted, lock, private_data, urbs>>

\* and the process copies it from there.
Copy(f) ==
  /\ us_at[f] = "copy"
  /\ us_trouble' = us_trouble
       \cup If("misread", bulk_in_buffer[private_data[f]] # found[f])
       \cup If("used a deleted one", deleted[private_data[f]])
  /\ found' = [found EXCEPT ![f] = 0]
  /\ Go(f, "open")
  /\ UNCHANGED <<plug, intfdata, minor, kref, deleted, lock, private_data, bulk_in_buffer, sent, urbs>>

\* skel_write hands its buffer to the transfer and returns; the error path
\* uses the urb it does not have, or frees the buffer for a second time.
skel_write(f) ==
  /\ us_at[f] = "open" /\ Plugged(f) /\ f \notin urbs
  /\ \/ urbs' = urbs \cup {f} /\ UNCHANGED us_trouble
     \/ \E what \in {"no urb", "freed twice"} :
          us_trouble' = us_trouble \cup {what} /\ UNCHANGED urbs
  /\ UNCHANGED <<plug, intfdata, minor, kref, deleted, lock, us_at, private_data, found,
                 bulk_in_buffer, sent>>

\* The transfer has ended, or has been cancelled as the device went away.
skel_write_bulk_callback(f) ==
  /\ f \in urbs
  /\ urbs' = urbs \ {f}
  /\ UNCHANGED <<plug, intfdata, minor, kref, deleted, lock, us_at, private_data, found,
                 bulk_in_buffer, sent, us_trouble>>

Healthy == us_trouble \subseteq {"two readers"}

Next ==
  /\ Healthy
  /\ \/ skel_probe \/ Register \/ skel_disconnect
     \/ \E f \in Files : \/ Find(f) \/ Get(f) \/ skel_release(f)
                         \/ Receive(f) \/ Copy(f)
                         \/ skel_write(f) \/ skel_write_bulk_callback(f)

-----------------------------------------------------------------------------
(* Properties *)

\* A structure has a reference for every file open on it and one for the
\* interface until disconnect has given it back, and is deleted with the last:
\* not before, and not never.
RefsExact ==
  \A k \in 1 .. plug.count :
    /\ kref[k] = Cardinality({f \in Files : private_data[f] = k})
                 + (IF k = dev /\ plug.at # "out" THEN 1 ELSE 0)
    /\ deleted[k] <=> kref[k] = 0

\* An open never finds a structure that is on its way out: the lock is there
\* "to prevent skel_open() from racing skel_disconnect()" (line 310).
NothingDeletedUsed == {"found a deleted one", "used a deleted one"} \cap us_trouble = {}

\* "No locks are now needed anymore" (line 11): a read returns the packet it
\* received as long as no two read at a time.
ReadsOwnPacket == "misread" \in us_trouble => "two readers" \in us_trouble
=============================================================================
