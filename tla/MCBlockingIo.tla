---------------------------- MODULE MCBlockingIo ----------------------------
(* Small programs for BlockingIo: who may make which calls. *)
EXTENDS BlockingIo

CONSTANTS A, B, C

Program(a, b, c) == [p \in Procs |-> IF p = A THEN a ELSE IF p = B THEN b ELSE c]

\* One reader, one port waiter: the waiter words hold one process.
ChannelPrograms == {
  Program({"channel_read"}, {"write", "close_write"}, {"channel_write"}),
  Program({"read", "close_read"}, {"write", "poll"}, {"channel_write"}),
  Program({"wait_readable"}, {"write", "close_write"}, {"read"}),
  Program({"wait_closed"}, {"write", "close_write"}, {"channel_read"}),
  Program({"port_wait"}, {"port_bind", "port_queue", "read"}, {"write"})}

PipePrograms == {
  Program({"pipe_read", "pipe_close_read"}, {"pipe_write", "pipe_close"}, {"pipe_write", "pipe_close"})}

FutexPrograms == {
  Program({"futex_wait"}, {"futex_wake"}, {"futex_wake"}),
  Program({"futex_wait"}, {"futex_wait"}, {"futex_wake"})}

TtyPrograms == {Program({"tty_read"}, {}, {})}

MailPrograms == {Program({"mailbox_receive"}, {"mailbox_send"}, {"mailbox_send"})}

EpollPrograms == {
  Program({"epoll_ctl", "epoll_timed", "epoll_poll", "pipe_read"}, {"pipe_write", "pipe_close"}, {}),
  Program({"epoll_ctl", "epoll_timed", "epoll_wait", "pipe_read", "signalled"}, {"pipe_write"}, {}),
  Program({"epoll_ctl", "epoll_timed", "epoll_poll", "pipe_read", "unmapped"}, {"pipe_write"}, {}),
  Program({"epoll_ctl", "epoll_wait", "read"}, {"write", "channel_write", "close_write"}, {}),
  Program({"epoll_ctl", "epoll_wait", "tty"}, {}, {})}

AllPrograms ==
  ChannelPrograms \cup PipePrograms \cup FutexPrograms \cup TtyPrograms
    \cup MailPrograms \cup EpollPrograms

OnReadable == {"readable"}
BothModes  == BOOLEAN
Groups     == {{}, {A}, {B}}
Calls      == [p \in Procs |-> IF p = A THEN 3 ELSE IF p = B THEN 2 ELSE 1]
Objects    == {"channel", "pipe", "tty"}
=============================================================================
