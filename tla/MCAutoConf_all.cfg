\* Answers prompt or late, in one fragment or two; another device and one of
\* the agent's own address announce themselves as the controller does; two
\* disturbances, of one kind or of two.
SPECIFICATION Spec
CONSTANTS
    Device = {self, controller, other}
    Self = self
    Controller = controller
    Nobody = nobody
    Fragments = {1, 2}
    MaxMesh = 3
    MaxAir = 2
    MaxSpent = 2
INVARIANTS TypeOK ConfiguredByController
PROPERTIES UndoneByResponseOnly KeepsTrying KeepsController EventuallyConfigured
