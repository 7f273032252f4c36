\* Two windows, three fetches.
SPECIFICATION Spec
CONSTANTS
    Clients = {"main", "browse"}
    MaxFetches = 3
    None = None
INVARIANT UsersTracked
CHECK_DEADLOCK FALSE
